---------------------------- MODULE Spec2Model ----------------------------
(***************************************************************************)
(* OpenSift: the planner -> search -> verifier -> classifier funnel of     *)
(* opensift.core.engine, in complete mode (search) and in streaming mode   *)
(* (search_stream), with the planner of opensift.core.planner and the      *)
(* classifier of opensift.core.classifier.                                 *)
(*                                                                         *)
(* Numbers: a weight or a score is an integer number of thousandths        *)
(* (1000 is 1.0).  The planner rounds to 2 decimals, which are the         *)
(* multiples of 10.  Strings that the code splits, joins, strips or        *)
(* lower-cases are sequences of one-character strings.                     *)
(***************************************************************************)
EXTENDS Integers, Sequences, FiniteSets, TLC

(***************************************************************************)
(* Bounds of the model.                                                    *)
(***************************************************************************)
MaxCriteria == 4
MaxItems == 3
MaxConcurrent == 2
MaxQueryLen == 3
MaxEntries == 2

\* Queries of one batch_search request (BatchSearchRequest allows 20).
MaxQueries == 2

\* options.timeout_seconds of the requests, in seconds of the clock.
TimeoutSeconds == 2

\* Characters between the quotes of a JSON string given to _repair_json.
MaxStringLen == 2

(***************************************************************************)
(* Generic helpers.                                                        *)
(***************************************************************************)
RECURSIVE SumSeq(_)
SumSeq(s) == IF s = <<>> THEN 0 ELSE Head(s) + SumSeq(Tail(s))

Abs(x) == IF x < 0 THEN -x ELSE x

Min(a, b) == IF a < b THEN a ELSE b

Range(s) == {s[i] : i \in 1..Len(s)}

SeqsUpTo(S, n) == UNION {[1..k -> S] : k \in 0..n}

\* A call that yields a list either returns it or raises.
Returns(v) == [raised |-> FALSE, value |-> v]

Raises == [raised |-> TRUE, value |-> <<>>]

\* Python's round() to the nearest integer of num/den (den > 0), ties to even.
RoundHalfEven(num, den) ==
    LET q == num \div den
        r == num % den
    IN  IF 2 * r > den \/ (2 * r = den /\ q % 2 = 1) THEN q + 1 ELSE q

(***************************************************************************)
(* str.split(), " ".join(), str.strip(), str.lower()                       *)
(***************************************************************************)
Space == " "

LowerChar(c) == IF c = "A" THEN "a" ELSE IF c = "B" THEN "b" ELSE c

Lower(s) == [i \in 1..Len(s) |-> LowerChar(s[i])]

RECURSIVE LStrip(_)
LStrip(s) == IF s # <<>> /\ Head(s) = Space THEN LStrip(Tail(s)) ELSE s

RECURSIVE RStrip(_)
RStrip(s) ==
    IF s # <<>> /\ s[Len(s)] = Space THEN RStrip(SubSeq(s, 1, Len(s) - 1)) ELSE s

Strip(s) == RStrip(LStrip(s))

\* The first token of a string that does not start with a space.
RECURSIVE FirstToken(_)
FirstToken(s) ==
    IF s = <<>> \/ Head(s) = Space THEN <<>>
    ELSE <<Head(s)>> \o FirstToken(Tail(s))

RECURSIVE Split(_)
Split(s) ==
    LET t == LStrip(s)
    IN  IF t = <<>> THEN <<>>
        ELSE LET tok == FirstToken(t)
             IN  <<tok>> \o Split(SubSeq(t, Len(tok) + 1, Len(t)))

RECURSIVE Join(_)
Join(toks) ==
    IF toks = <<>> THEN <<>>
    ELSE IF Len(toks) = 1 THEN toks[1]
    ELSE toks[1] \o <<Space>> \o Join(Tail(toks))

Reverse(s) == [i \in 1..Len(s) |-> s[Len(s) + 1 - i]]

Overview == <<" ", "o">>

(***************************************************************************)
(* opensift.models.criteria                                                *)
(***************************************************************************)
\* Criterion.weight: Field(ge=0.0, le=1.0), checked when a Criterion is built.
WeightFieldOk(w) == w >= 0 /\ w <= 1000

Criterion(id, type, weight) == [criterion_id |-> id, type |-> type, weight |-> weight]

CriteriaResult(queries, criteria) == [search_queries |-> queries, criteria |-> criteria]

\* f"criterion_{i}"
CriterionId(i) ==
    CASE i = 1 -> "criterion_1"
      [] i = 2 -> "criterion_2"
      [] i = 3 -> "criterion_3"
      [] i = 4 -> "criterion_4"
      [] i = 5 -> "criterion_5"
      [] OTHER -> "criterion_n"

Weights(cr) == [i \in 1..Len(cr.criteria) |-> cr.criteria[i].weight]

(***************************************************************************)
(* QueryPlanner._create_simple_result                                      *)
(***************************************************************************)
\* Mutation of UniqueQueries: the key is not lower-cased.
RECURSIVE UniqueQueriesCaseSensitive(_, _)
UniqueQueriesCaseSensitive(queries, seen) ==
    IF queries = <<>> THEN <<>>
    ELSE LET q == Head(queries)
             key == Strip(q)
         IN  IF key # <<>> /\ key \notin seen
             THEN <<Strip(q)>> \o UniqueQueriesCaseSensitive(Tail(queries), seen \cup {key})
             ELSE UniqueQueriesCaseSensitive(Tail(queries), seen)

\* The loop that keeps the first query of each stripped, lower-cased key.
RECURSIVE UniqueQueries(_, _)
UniqueQueries(queries, seen) ==
    IF queries = <<>> THEN <<>>
    ELSE LET q == Head(queries)
             key == Lower(Strip(q))
         IN  IF key # <<>> /\ key \notin seen
             THEN <<Strip(q)>> \o UniqueQueries(Tail(queries), seen \cup {key})
             ELSE UniqueQueries(Tail(queries), seen)

SimpleQueries(query) ==
    LET tokens == Split(query)
        mid == Len(tokens) \div 2
        queries ==
            IF Len(tokens) >= 4
            THEN <<query, Join(SubSeq(tokens, 1, mid)),
                   Join(SubSeq(tokens, mid + 1, Len(tokens)))>>
            ELSE IF Len(tokens) >= 2
            THEN <<query, Join(Reverse(tokens))>>
            ELSE <<query, query \o Overview>>
        unique == UniqueQueries(queries, {})
    IN  IF unique # <<>> THEN unique ELSE <<query>>

_create_simple_result(query) ==
    CriteriaResult(SimpleQueries(query), <<Criterion("criterion_1", "topic", 1000)>>)

(***************************************************************************)
(* QueryPlanner._parse_criteria_response                                   *)
(*                                                                         *)
(* A raw LLM response is [search_queries, criteria]: search_queries is a   *)
(* sequence of strings, <<>> standing for a missing, empty or non-list     *)
(* value; criteria is a sequence of raw criteria, <<>> likewise.  A raw    *)
(* criterion is [criterion_id, type, weight], criterion_id "" standing for *)
(* an absent key and weight 0 also for an absent weight (the default 0.0). *)
(***************************************************************************)
Failed == [failed |-> TRUE]

\* Lines 147-156: one Criterion per raw criterion, ids defaulting by position.
ParsedCriteria(criteria_raw) ==
    [i \in 1..Len(criteria_raw) |->
        Criterion(IF criteria_raw[i].criterion_id = "" THEN CriterionId(i)
                  ELSE criteria_raw[i].criterion_id,
                  criteria_raw[i].type,
                  criteria_raw[i].weight)]

\* Lines 163-164: c.weight = round(c.weight / total_weight, 2)
DividedWeights(criteria, total_weight) ==
    [i \in 1..Len(criteria) |->
        [criteria[i] EXCEPT !.weight = 10 * RoundHalfEven(100 * criteria[i].weight, total_weight)]]

\* Lines 166-167: the last weight takes the rounding difference.
FixLastWeight(criteria) ==
    LET diff == 1000 - SumSeq([i \in 1..Len(criteria) |-> criteria[i].weight])
        n == Len(criteria)
    IN  [criteria EXCEPT ![n].weight = criteria[n].weight + diff]

\* Lines 158-167.
NormalizedCriteria(criteria) ==
    LET total_weight == SumSeq([i \in 1..Len(criteria) |-> criteria[i].weight])
    IN  IF Abs(total_weight - 1000) > 50 /\ total_weight > 0
        THEN FixLastWeight(DividedWeights(criteria, total_weight))
        ELSE criteria

_parse_criteria_response(raw) ==
    IF raw.search_queries = <<>> \/ raw.criteria = <<>> THEN Failed
    ELSE IF \E i \in 1..Len(raw.criteria) : ~WeightFieldOk(raw.criteria[i].weight)
    THEN Failed
    ELSE CriteriaResult(raw.search_queries, NormalizedCriteria(ParsedCriteria(raw.criteria)))

(***************************************************************************)
(* QueryPlanner.plan                                                       *)
(*                                                                         *)
(* llm is "none" (no client configured), "raises" (chat_json raises) or    *)
(* "answers" (chat_json returns raw).                                      *)
(***************************************************************************)
LlmCalled(decompose, llm) == decompose /\ llm # "none"

_generate_with_llm(llm, raw) ==
    IF llm = "raises" THEN Failed ELSE _parse_criteria_response(raw)

\* Mutation of plan: the try/except around the LLM path is missing.
planWithoutExcept(query, decompose, llm, raw) ==
    IF ~decompose THEN _create_simple_result(query)
    ELSE IF llm # "none" THEN _generate_with_llm(llm, raw)
    ELSE _create_simple_result(query)

plan(query, decompose, llm, raw) ==
    IF ~decompose THEN _create_simple_result(query)
    ELSE IF llm # "none" /\ _generate_with_llm(llm, raw) # Failed
    THEN _generate_with_llm(llm, raw)
    ELSE _create_simple_result(query)


(***************************************************************************)
(* opensift.models.assessment and the verifier's per-item result           *)
(*                                                                         *)
(* A validation is the criteria_assessment list of a ValidationResult: one *)
(* [criterion_id, assessment] per entry.                                   *)
(***************************************************************************)
AssessmentType == {"support", "reject", "somewhat_support", "insufficient_information"}

\* ScoredResult.weighted_score: Field(ge=0.0, le=1.0), in ten-thousandths.
ScoreFieldOk(score) == score >= 0 /\ score <= 10000

\* EvidenceVerifier._fallback_validation: every criterion insufficient_information.
_fallback_validation(criteria) ==
    [i \in 1..Len(criteria) |->
        [criterion_id |-> criteria[i].criterion_id,
         assessment |-> "insufficient_information"]]

\* An assessment string outside the enum becomes insufficient_information.
CoercedAssessment(assessment) ==
    IF assessment \in AssessmentType THEN assessment ELSE "insufficient_information"

\* Mutation of _parse_validation_response: the entries of the response are
\* taken as they come, coerced but neither filled, filtered nor reordered.
ParsedAsGiven(entries, criteria) ==
    [k \in 1..Len(entries) |->
        [criterion_id |-> entries[k].criterion_id,
         assessment |-> CoercedAssessment(entries[k].assessment)]]

\* EvidenceVerifier._parse_validation_response: entries is the response's
\* criteria_assessment list, each entry [criterion_id, assessment].  One output
\* entry per criterion, in declaration order: the criterion's entry of the
\* response (the first one, should there be several), coerced, or
\* insufficient_information when there is none; other entries are dropped.
_parse_validation_response(entries, criteria) ==
    [i \in 1..Len(criteria) |->
        LET hits == {k \in 1..Len(entries) :
                        entries[k].criterion_id = criteria[i].criterion_id}
        IN  [criterion_id |-> criteria[i].criterion_id,
             assessment |->
                 IF hits = {} THEN "insufficient_information"
                 ELSE CoercedAssessment(
                          entries[CHOOSE k \in hits : \A j \in hits : k <= j].assessment)]]

\* EvidenceVerifier.verify for one item: the validated assessments of the LLM's
\* answer, or the fallback when the call or the parsing fails.  answer is
\* <<>> (the failure) or a sequence of assessments, one per criterion.
verify(answer, criteria) ==
    IF answer = <<>> THEN _fallback_validation(criteria)
    ELSE _parse_validation_response(
             [i \in 1..Len(criteria) |->
                 [criterion_id |-> criteria[i].criterion_id, assessment |-> answer[i]]],
             criteria)

\* EvidenceVerifier.verify on the outcome of the LLM call: it raised, or it
\* returned a criteria_assessment list.
VerifyResponse(outcome, criteria) ==
    IF outcome.raised THEN _fallback_validation(criteria)
    ELSE _parse_validation_response(outcome.value, criteria)

(***************************************************************************)
(* opensift.core.classifier.ResultClassifier                               *)
(***************************************************************************)
\* criteria_map = {c.criterion_id: c for c in criteria}; criteria_map.get(id):
\* the last criterion carrying the id, or None.
None == [none |-> TRUE]

CriteriaMapGet(criteria, id) ==
    LET hits == {i \in 1..Len(criteria) : criteria[i].criterion_id = id}
    IN  IF hits = {} THEN None
        ELSE criteria[CHOOSE i \in hits : \A j \in hits : j <= i]

_classify_single(assessments) ==
    IF assessments = <<>> THEN "reject"
    ELSE IF assessments[1].assessment = "support" THEN "perfect"
    ELSE IF assessments[1].assessment = "somewhat_support" THEN "partial"
    ELSE "reject"

_classify_multiple(assessments, criteria) ==
    IF assessments = <<>> THEN "reject"
    ELSE IF \A i \in 1..Len(assessments) : assessments[i].assessment = "support"
    THEN "perfect"
    ELSE IF \E i \in 1..Len(assessments) :
               /\ assessments[i].assessment \in {"support", "somewhat_support"}
               /\ CriteriaMapGet(criteria, assessments[i].criterion_id) # None
               /\ CriteriaMapGet(criteria, assessments[i].criterion_id).type # "time"
    THEN "partial"
    ELSE "reject"

\* Mutation of ScoreMap: insufficient_information scores as somewhat_support.
ScoreMapOfDoubt(assessment) ==
    CASE assessment = "support" -> 10
      [] assessment \in {"somewhat_support", "insufficient_information"} -> 5
      [] OTHER -> 0

\* score_map, in tenths of a weight unit: support 1.0, somewhat_support 0.5.
ScoreMap(assessment) ==
    CASE assessment = "support" -> 10
      [] assessment = "somewhat_support" -> 5
      [] OTHER -> 0

\* In ten-thousandths.
_calculate_weighted_score(assessments, criteria) ==
    LET term(i) ==
            LET criterion == CriteriaMapGet(criteria, assessments[i].criterion_id)
                weight == IF criterion = None THEN 0 ELSE criterion.weight
            IN  ScoreMap(assessments[i].assessment) * weight
        total == SumSeq([i \in 1..Len(assessments) |-> term(i)])
    IN  Min(10000, total)

ClassificationOf(validation, criteria) ==
    IF Len(criteria) = 1 THEN _classify_single(validation)
    ELSE _classify_multiple(validation, criteria)

\* ResultClassifier.classify: the ScoredResult, or Failed when pydantic rejects
\* the weighted_score.
classify(item, validation, criteria) ==
    LET score == _calculate_weighted_score(validation, criteria)
    IN  IF ~ScoreFieldOk(score) THEN Failed
        ELSE [result |-> item,
              validation |-> validation,
              classification |-> ClassificationOf(validation, criteria),
              weighted_score |-> score]

Priority(classification) ==
    CASE classification = "perfect" -> 0
      [] classification = "partial" -> 1
      [] OTHER -> 2

\* Mutation of SortsBefore: an equal key also sorts before.
SortsBeforeOrEqual(a, b) ==
    \/ Priority(a.classification) < Priority(b.classification)
    \/ /\ Priority(a.classification) = Priority(b.classification)
       /\ a.weighted_score >= b.weighted_score

\* key=lambda s: (priority[s.classification], -s.weighted_score)
SortsBefore(a, b) ==
    \/ Priority(a.classification) < Priority(b.classification)
    \/ /\ Priority(a.classification) = Priority(b.classification)
       /\ a.weighted_score > b.weighted_score

\* list.sort is stable: x goes after every element that does not sort after it.
RECURSIVE InsertSorted(_, _)
InsertSorted(sorted, x) ==
    IF sorted = <<>> THEN <<x>>
    ELSE IF SortsBefore(x, Head(sorted)) THEN <<x>> \o sorted
    ELSE <<Head(sorted)>> \o InsertSorted(Tail(sorted), x)

RECURSIVE StableSort(_)
StableSort(s) ==
    IF s = <<>> THEN <<>>
    ELSE InsertSorted(StableSort(SubSeq(s, 1, Len(s) - 1)), s[Len(s)])

\* ResultClassifier.classify_batch; it raises when one classify raises.
classify_batch(results, validations, criteria) ==
    LET scored == [i \in 1..Len(results) |-> classify(results[i], validations[i], criteria)]
    IN  IF \E i \in 1..Len(results) : scored[i] = Failed THEN Raises
        ELSE Returns(StableSort(scored))

\* Mutation of SelectClass: the partial list also takes the perfect results.
SelectClassOrBetter(scored, classification) ==
    SelectSeq(scored, LAMBDA r : \/ r.classification = classification
                                 \/ /\ classification = "partial"
                                    /\ r.classification = "perfect")

\* Lines 203-205 of engine.search: [r for r in scored if r.classification == ...]
SelectClass(scored, classification) ==
    SelectSeq(scored, LAMBDA r : r.classification = classification)


(***************************************************************************)
(* The state of one request to the engine.                                 *)
(***************************************************************************)
\* No adapter object, no call, no registry and no chat_json call: the values of
\* the variables in the specifications that do not use them.
NoAdapter == [kind |-> "none"]

NoCall == [op |-> "none"]

NoRegistry == [instances |-> <<>>]

NoChat == [requests |-> <<>>]

VARIABLES
    adapter,          \* one SearchAdapter object: its kind, configuration and _client
    last_call,        \* the last adapter or registry call and how it ended
    registry,         \* the AdapterRegistry and the adapter objects it constructed
    chat,             \* one LLMClient.chat_json call: its requests and its result
    api,              \* the engine operation called: "plan", "search", "search_stream"
    request,          \* [query, options: [decompose, verify, classify]]
    llm,              \* the planner's LLM: "none", "raises" or "answers"
    raw,              \* the JSON the planner's LLM answers with
    instances,        \* AdapterRegistry._instances: the initialized adapters' names
    backend,          \* per adapter, what its search task does: raises or returns titles
    fanout,           \* what _execute_searches returns for this request
    pc,               \* where the operation stands
    criteria_result,  \* the planner's result
    items,            \* the deduplicated items
    task,             \* per item, its verification task: "waiting", "running", "finished"
    llm_answer,       \* per item, what the verifier's LLM call gave: <<>> when it failed
    validation,       \* per item, the validation its task returned
    completed,        \* the finished tasks of as_completed, in completion order
    semaphore,        \* the value of the asyncio.Semaphore
    index,            \* the enumerate counter of the as_completed loop
    counts,           \* [perfect_count, partial_count, rejected_count]
    events,           \* the StreamEvents search_stream has yielded
    sse,              \* the frames _sse_generator has yielded
    response,         \* what plan or search returned
    scored_results,   \* what ResultClassifier.classify or classify_batch returned
    raw_responses,    \* batch_search: what each query's search() returned or raised
    batch_response,   \* what batch_search returned
    clock,            \* seconds since the request arrived
    text,             \* the argument of LLMClient._repair_json
    repaired          \* what LLMClient._repair_json returned

vars == <<api, adapter, last_call, registry, chat, text, repaired, clock, scored_results, raw_responses, batch_response, request, llm, raw, instances, backend, fanout, pc, criteria_result, items, task,
          llm_answer, validation, completed, semaphore, index, counts, events, sse, response>>

SearchResponse(status, perfect, partial, rejected, raw_results, n) ==
    [status |-> status, perfect_results |-> perfect, partial_results |-> partial,
     rejected_results |-> rejected, rejected_count |-> Len(rejected), raw_results |-> raw_results, total_scanned |-> n]

\* No response yet; the operation raised; engine.plan's PlanResponse.
NoResponse == SearchResponse("none", <<>>, <<>>, <<>>, <<>>, 0)

Raised == SearchResponse("raised", <<>>, <<>>, <<>>, <<>>, 0)

PlanResponse == SearchResponse("planned", <<>>, <<>>, <<>>, <<>>, 0)

NoPlan == CriteriaResult(<<>>, <<>>)

BatchSearchResponse(status, total_queries, results) ==
    [status |-> status, total_queries |-> total_queries, results |-> results]

\* No batch response yet; batch_search raised.
NoBatch == BatchSearchResponse("none", 0, <<>>)

BatchRaised == BatchSearchResponse("raised", 0, <<>>)

ZeroCounts == [perfect_count |-> 0, partial_count |-> 0, rejected_count |-> 0]

ItemList(n) == [i \in 1..n |-> i]

\* The answer of a verifier call that has not returned.
Pending == <<"pending">>

(***************************************************************************)
(* StreamEvent and the SSE framing of _sse_generator                       *)
(***************************************************************************)
NoData ==
    [index |-> 0, total |-> 0, result |-> 0, classification |-> "", weighted_score |-> 0,
     validation |-> <<>>, status |-> "", total_results |-> 0, total_scanned |-> 0,
     perfect_count |-> 0, partial_count |-> 0, rejected_count |-> 0]

StreamEvent(event, data) == [event |-> event, data |-> data]

\* f"event: {event_type}\ndata: {payload}\n\n"
SseFrame(stream_event) == [event |-> stream_event.event, data |-> stream_event.data]

\* A yield of search_stream, which _sse_generator frames and yields in turn.
Yield(stream_event) ==
    /\ events' = Append(events, stream_event)
    /\ sse' = Append(sse, SseFrame(stream_event))

ErrorEvent == StreamEvent("error", NoData)

DoneEvent(status, n, c) ==
    StreamEvent("done",
        [NoData EXCEPT !.status = status, !.total_scanned = n,
                       !.perfect_count = c.perfect_count,
                       !.partial_count = c.partial_count,
                       !.rejected_count = c.rejected_count])


(***************************************************************************)
(* OpenSiftEngine._execute_searches                                        *)
(*                                                                         *)
(* backend[a] is [raises, titles]: the task of adapter a raises, or        *)
(* returns one document per title, for every query.                        *)
(***************************************************************************)
\* self.adapter_registry.get_adapters(names): AdapterRegistry defines register,
\* initialize_adapter, get, get_default, health_check_all, shutdown_all,
\* registered_adapters and active_adapters, and no get_adapters, so the
\* attribute lookup raises AttributeError.
get_adapters(registry_instances, names) == Raises

\* item.source_adapter = adapter_name: ResultItem declares result_type, title,
\* content, source_url and fields, and pydantic refuses to set another name
\* (ValueError).
SetSourceAdapter(item, adapter_name) == Raises

\* Lines 589-602: one task per adapter and query, adapters outermost.
RECURSIVE TaskMeta(_, _)
TaskMeta(adapters, search_queries) ==
    IF adapters = <<>> THEN <<>>
    ELSE [q \in 1..Len(search_queries) |-> Head(adapters)]
         \o TaskMeta(Tail(adapters), search_queries)

\* The (adapter, title) pairs of the tasks that did not raise, in task order.
RECURSIVE RawItems(_, _)
RawItems(task_meta, answers) ==
    IF task_meta = <<>> THEN <<>>
    ELSE LET adapter_name == Head(task_meta)
             mine == IF answers[adapter_name].raises THEN <<>>
                     ELSE [k \in 1..Len(answers[adapter_name].titles) |->
                              [title |-> answers[adapter_name].titles[k],
                               adapter |-> adapter_name]]
         IN  mine \o RawItems(Tail(task_meta), answers)

\* Lines 604-622: stamp each item, keep the first of each title key.
RECURSIVE DedupLoop(_, _, _)
DedupLoop(raw_items, seen_titles, acc) ==
    IF raw_items = <<>> THEN Returns(acc)
    ELSE LET stamped == SetSourceAdapter(Head(raw_items), Head(raw_items).adapter)
             key == Lower(Strip(Head(raw_items).title))
         IN  IF stamped.raised THEN Raises
             ELSE IF key \notin seen_titles
             THEN DedupLoop(Tail(raw_items), seen_titles \cup {key},
                            Append(acc, stamped.value))
             ELSE DedupLoop(Tail(raw_items), seen_titles, acc)

_execute_searches(registry_instances, names, answers, search_queries) ==
    LET adapters == get_adapters(registry_instances, names)
    IN  IF adapters.raised THEN Returns(<<>>)
        ELSE DedupLoop(RawItems(TaskMeta(adapters.value, search_queries), answers), {}, <<>>)

(***************************************************************************)
(* OpenSiftEngine.plan (plan-only mode)                                    *)
(***************************************************************************)
Planned == plan(request.query, request.options.decompose, llm, raw)

EnginePlan ==
    /\ api = "plan"
    /\ pc = "start"
    /\ criteria_result' = Planned
    /\ response' = PlanResponse
    /\ pc' = "returned"
    /\ UNCHANGED <<api, adapter, last_call, registry, chat, text, repaired, clock, scored_results, raw_responses, batch_response, request, llm, raw, instances, backend, fanout, items, task,
                   llm_answer, validation, completed, semaphore, index, counts, events, sse>>

(***************************************************************************)
(* The verification tasks: _verify_item of search_stream                   *)
(***************************************************************************)
Running == {i \in 1..Len(task) : task[i] = "running"}

\* The answers the verifier's LLM may give for n criteria; <<>> is a failed call.
Answers(n) ==
    {<<>>,
     [i \in 1..n |-> "support"],
     [i \in 1..n |-> IF i = 1 THEN "support" ELSE "reject"],
     [i \in 1..n |-> IF i = n THEN "somewhat_support" ELSE "reject"],
     [i \in 1..n |-> IF i = n THEN "support" ELSE "reject"]}

\* Mutation of MayAcquire: the task does not wait for the semaphore.
MayAcquireUngated(i) ==
    /\ task[i] = "waiting"
    /\ \A j \in 1..(i - 1) : task[j] # "waiting"

\* Tasks enter the semaphore in the order they were created (FIFO waiters).
MayAcquire(i) ==
    /\ task[i] = "waiting"
    /\ \A j \in 1..(i - 1) : task[j] # "waiting"
    /\ semaphore > 0

\* async with semaphore: with options.verify, the task starts verifier.verify
\* and waits for it; without, it returns the fallback and leaves at once.
StreamTaskAcquire(i) ==
    /\ api = "search_stream"
    /\ pc \in {"verifying", "closed"}
    /\ MayAcquire(i)
    /\ IF request.options.verify
       THEN /\ task' = [task EXCEPT ![i] = "running"]
            /\ semaphore' = semaphore - 1
            /\ UNCHANGED <<validation, completed>>
       ELSE /\ task' = [task EXCEPT ![i] = "finished"]
            /\ validation' = [validation EXCEPT ![i] = _fallback_validation(criteria_result.criteria)]
            /\ completed' = Append(completed, i)
            /\ UNCHANGED semaphore
    /\ UNCHANGED <<api, adapter, last_call, registry, chat, text, repaired, clock, scored_results, raw_responses, batch_response, request, llm, raw, instances, backend, fanout, pc, criteria_result,
                   items, llm_answer, index, counts, events, sse, response>>

\* Mutation of StreamTaskFinish: a failure of the verifier call leaves
\* _verify_item as an exception, which the generator meets at its await.
StreamTaskFinishRaising(i) ==
    /\ api = "search_stream"
    /\ pc \in {"verifying", "closed"}
    /\ i \in Running
    /\ \E answer \in Answers(Len(criteria_result.criteria)) :
          /\ llm_answer' = [llm_answer EXCEPT ![i] = answer]
          /\ validation' = [validation EXCEPT ![i] = verify(answer, criteria_result.criteria)]
          /\ IF answer = <<>> /\ pc = "verifying"
             THEN Yield(ErrorEvent) /\ pc' = "closed"
             ELSE UNCHANGED <<events, sse, pc>>
    /\ task' = [task EXCEPT ![i] = "finished"]
    /\ semaphore' = semaphore + 1
    /\ completed' = Append(completed, i)
    /\ UNCHANGED <<api, adapter, last_call, registry, chat, text, repaired, clock, scored_results, raw_responses, batch_response, request, llm, raw, instances, backend, fanout, criteria_result,
                   items, index, counts, response>>

\* verifier.verify returns; the task leaves the semaphore and is done.
StreamTaskFinish(i) ==
    /\ api = "search_stream"
    /\ pc \in {"verifying", "closed"}
    /\ i \in Running
    /\ \E answer \in Answers(Len(criteria_result.criteria)) :
          /\ llm_answer' = [llm_answer EXCEPT ![i] = answer]
          /\ validation' = [validation EXCEPT ![i] = verify(answer, criteria_result.criteria)]
    /\ task' = [task EXCEPT ![i] = "finished"]
    /\ semaphore' = semaphore + 1
    /\ completed' = Append(completed, i)
    /\ UNCHANGED <<api, adapter, last_call, registry, chat, text, repaired, clock, scored_results, raw_responses, batch_response, request, llm, raw, instances, backend, fanout, pc, criteria_result,
                   items, index, counts, events, sse, response>>


(***************************************************************************)
(* OpenSiftEngine.search_stream                                            *)
(***************************************************************************)
\* Stage 1: planner.plan, then the criteria event.
StreamPlan ==
    /\ api = "search_stream"
    /\ pc = "start"
    /\ criteria_result' = Planned
    /\ Yield(StreamEvent("criteria", NoData))
    /\ pc' = "planned"
    /\ UNCHANGED <<api, adapter, last_call, registry, chat, text, repaired, clock, scored_results, raw_responses, batch_response, request, llm, raw, instances, backend, fanout, items, task,
                   llm_answer, validation, completed, semaphore, index, counts, response>>

\* Mutation of StreamExecuteSearches: the search_complete event is yielded
\* only when there are items.
StreamExecuteSearchesQuietWhenEmpty ==
    /\ api = "search_stream"
    /\ pc = "planned"
    /\ items' = fanout.value
    /\ IF fanout.value = <<>>
       THEN UNCHANGED <<events, sse>>
       ELSE Yield(StreamEvent("search_complete",
                              [NoData EXCEPT !.total_results = Len(fanout.value)]))
    /\ pc' = "searched"
    /\ UNCHANGED <<api, adapter, last_call, registry, chat, text, repaired, clock, scored_results, raw_responses, batch_response, request, llm, raw, instances, backend, fanout, criteria_result, task,
                   llm_answer, validation, completed, semaphore, index, counts, response>>

\* Stage 2: _execute_searches, then the search_complete event; an exception of
\* _execute_searches goes to the handler of line 405.
StreamExecuteSearches ==
    /\ api = "search_stream"
    /\ pc = "planned"
    /\ IF fanout.raised
       THEN /\ Yield(ErrorEvent)
            /\ pc' = "closed"
            /\ UNCHANGED items
       ELSE /\ items' = fanout.value
            /\ Yield(StreamEvent("search_complete",
                                 [NoData EXCEPT !.total_results = Len(fanout.value)]))
            /\ pc' = "searched"
    /\ UNCHANGED <<api, adapter, last_call, registry, chat, text, repaired, clock, scored_results, raw_responses, batch_response, request, llm, raw, instances, backend, fanout, criteria_result, task,
                   llm_answer, validation, completed, semaphore, index, counts, response>>

\* Mutation of StreamNoResults: the return of line 316 is missing, and the
\* generator goes on to the verification loop.
StreamNoResultsFallsThrough ==
    /\ api = "search_stream"
    /\ pc = "searched"
    /\ items = <<>>
    /\ Yield(DoneEvent("no_results", 0, ZeroCounts))
    /\ pc' = "verifying"
    /\ UNCHANGED <<api, adapter, last_call, registry, chat, text, repaired, clock, scored_results, raw_responses, batch_response, request, llm, raw, instances, backend, fanout, criteria_result, items,
                   task, llm_answer, validation, completed, semaphore, index, counts, response>>

\* Lines 303-316: no items, the done event with status no_results.
StreamNoResults ==
    /\ api = "search_stream"
    /\ pc = "searched"
    /\ items = <<>>
    /\ Yield(DoneEvent("no_results", 0, ZeroCounts))
    /\ pc' = "closed"
    /\ UNCHANGED <<api, adapter, last_call, registry, chat, text, repaired, clock, scored_results, raw_responses, batch_response, request, llm, raw, instances, backend, fanout, criteria_result, items,
                   task, llm_answer, validation, completed, semaphore, index, counts, response>>

\* Lines 319-343: the counts, the semaphore and one task per item.
StreamLaunch ==
    /\ api = "search_stream"
    /\ pc = "searched"
    /\ items # <<>>
    /\ counts' = ZeroCounts
    /\ semaphore' = MaxConcurrent
    /\ task' = [i \in 1..Len(items) |-> "waiting"]
    /\ llm_answer' = [i \in 1..Len(items) |-> Pending]
    /\ validation' = [i \in 1..Len(items) |-> <<>>]
    /\ completed' = <<>>
    /\ index' = 0
    /\ pc' = "verifying"
    /\ UNCHANGED <<api, adapter, last_call, registry, chat, text, repaired, clock, scored_results, raw_responses, batch_response, request, llm, raw, instances, backend, fanout, criteria_result, items,
                   events, sse, response>>

\* Mutation of CountedIn: a partial result is counted as rejected.
CountedInPerfectOrRejected(c, classification) ==
    IF classification = "perfect" THEN [c EXCEPT !.perfect_count = @ + 1]
    ELSE [c EXCEPT !.rejected_count = @ + 1]
CountedIn(c, classification) ==
    IF classification = "perfect" THEN [c EXCEPT !.perfect_count = @ + 1]
    ELSE IF classification = "partial" THEN [c EXCEPT !.partial_count = @ + 1]
    ELSE [c EXCEPT !.rejected_count = @ + 1]

\* Mutation of NextCompleted: the loop takes the tasks in item order.
NextInItemOrder == index + 1

\* The task as_completed hands to the loop's next iteration.
NextCompleted == completed[index + 1]

\* One iteration of the as_completed loop, lines 345-379: the next finished
\* task, its classification (or not) and its result event; an exception of
\* classify goes to the handler of line 405.
StreamEmitResult ==
    /\ api = "search_stream"
    /\ pc = "verifying"
    /\ index < Len(completed)
    /\ LET i == NextCompleted
           scored == classify(items[i], validation[i], criteria_result.criteria)
       IN  IF request.options.classify
           THEN IF scored = Failed
                THEN /\ Yield(ErrorEvent)
                     /\ pc' = "closed"
                     /\ UNCHANGED <<index, counts>>
                ELSE /\ counts' = CountedIn(counts, scored.classification)
                     /\ index' = index + 1
                     /\ Yield(StreamEvent("result",
                            [NoData EXCEPT !.index = index + 1, !.total = Len(items),
                                           !.result = scored.result,
                                           !.validation = scored.validation,
                                           !.classification = scored.classification,
                                           !.weighted_score = scored.weighted_score]))
                     /\ pc' = pc
           ELSE /\ index' = index + 1
                /\ Yield(StreamEvent("result",
                       [NoData EXCEPT !.index = index + 1, !.total = Len(items),
                                      !.result = items[i],
                                      !.validation = validation[i]]))
                /\ UNCHANGED <<pc, counts>>
    /\ UNCHANGED <<api, adapter, last_call, registry, chat, text, repaired, clock, scored_results, raw_responses, batch_response, request, llm, raw, instances, backend, fanout, criteria_result, items,
                   task, llm_answer, validation, completed, semaphore, response>>

\* Mutation of StreamDone: the loop ends as soon as no finished task is left
\* to consume, whether or not tasks are still running.
StreamDoneWhenIdle ==
    /\ api = "search_stream"
    /\ pc = "verifying"
    /\ index = Len(completed)
    /\ Yield(DoneEvent("completed", Len(items), counts))
    /\ pc' = "closed"
    /\ UNCHANGED <<api, adapter, last_call, registry, chat, text, repaired, clock, scored_results, raw_responses, batch_response, request, llm, raw, instances, backend, fanout, criteria_result, items,
                   task, llm_answer, validation, completed, semaphore, index, counts, response>>

\* Lines 381-403: the loop has consumed every task; the done event.
StreamDone ==
    /\ api = "search_stream"
    /\ pc = "verifying"
    /\ index = Len(items)
    /\ Yield(DoneEvent("completed", Len(items), counts))
    /\ pc' = "closed"
    /\ UNCHANGED <<api, adapter, last_call, registry, chat, text, repaired, clock, scored_results, raw_responses, batch_response, request, llm, raw, instances, backend, fanout, criteria_result, items,
                   task, llm_answer, validation, completed, semaphore, index, counts, response>>


(***************************************************************************)
(* EvidenceVerifier.verify_batch: one verify per item under a semaphore of *)
(* width max_concurrent, the validations returned in item order.           *)
(***************************************************************************)
BatchTaskAcquire(i) ==
    /\ api = "search"
    /\ pc = "verifying"
    /\ MayAcquire(i)
    /\ task' = [task EXCEPT ![i] = "running"]
    /\ semaphore' = semaphore - 1
    /\ UNCHANGED <<api, adapter, last_call, registry, chat, text, repaired, clock, scored_results, raw_responses, batch_response, request, llm, raw, instances, backend, fanout, pc, criteria_result,
                   items, llm_answer, validation, completed, index, counts, events, sse, response>>

BatchTaskFinish(i) ==
    /\ api = "search"
    /\ pc = "verifying"
    /\ i \in Running
    /\ \E answer \in Answers(Len(criteria_result.criteria)) :
          /\ llm_answer' = [llm_answer EXCEPT ![i] = answer]
          /\ validation' = [validation EXCEPT ![i] = verify(answer, criteria_result.criteria)]
    /\ task' = [task EXCEPT ![i] = "finished"]
    /\ semaphore' = semaphore + 1
    /\ UNCHANGED <<api, adapter, last_call, registry, chat, text, repaired, clock, scored_results, raw_responses, batch_response, request, llm, raw, instances, backend, fanout, pc, criteria_result,
                   items, completed, index, counts, events, sse, response>>

(***************************************************************************)
(* EvidenceVerifier.verify called on one item: llm_answer[1] is the        *)
(* outcome of the LLM call.                                                *)
(***************************************************************************)
VerifierVerify ==
    /\ api = "verify"
    /\ pc = "start"
    /\ validation' = <<VerifyResponse(llm_answer[1], criteria_result.criteria)>>
    /\ task' = <<"finished">>
    /\ pc' = "returned"
    /\ UNCHANGED <<api, adapter, last_call, registry, chat, text, repaired, clock, scored_results, raw_responses, batch_response, request, llm, raw, instances, backend, fanout, criteria_result, items,
                   llm_answer, completed, semaphore, index, counts, events, sse, response>>

(***************************************************************************)
(* ResultClassifier.classify called on one item and its validation.        *)
(***************************************************************************)
ClassifierClassify ==
    /\ api = "classify"
    /\ pc = "start"
    /\ LET scored == classify(items[1], validation[1], criteria_result.criteria)
       IN  scored_results' = IF scored = Failed THEN Raises ELSE Returns(<<scored>>)
    /\ pc' = "returned"
    /\ UNCHANGED <<api, adapter, last_call, registry, chat, text, repaired, clock, raw_responses, batch_response, request, llm, raw, instances, backend,
                   fanout, criteria_result, items, task, llm_answer, validation, completed,
                   semaphore, index, counts, events, sse, response>>

(***************************************************************************)
(* OpenSiftEngine.search (complete mode)                                   *)
(***************************************************************************)
\* Stage 4 and the response, lines 198-250; an exception of classify_batch
\* leaves search.
Assembled(results, validations, criteria, do_classify) ==
    LET scored == classify_batch(results, validations, criteria)
    IN  IF do_classify
        THEN IF scored.raised THEN Raised
             ELSE SearchResponse("completed", SelectClass(scored.value, "perfect"),
                                 SelectClass(scored.value, "partial"),
                                 SelectClass(scored.value, "reject"), <<>>, Len(results))
        ELSE SearchResponse("completed", <<>>, <<>>, <<>>,
                            [i \in 1..Len(results) |->
                                [result |-> results[i], validation |-> validations[i]]],
                            Len(results))

\* Stage 1: planner.plan.
SearchPlan ==
    /\ api = "search"
    /\ pc = "start"
    /\ criteria_result' = Planned
    /\ pc' = "planned"
    /\ UNCHANGED <<api, adapter, last_call, registry, chat, text, repaired, clock, scored_results, raw_responses, batch_response, request, llm, raw, instances, backend, fanout, items, task,
                   llm_answer, validation, completed, semaphore, index, counts, events, sse, response>>

\* Stage 2, lines 166-195: _execute_searches; no results, the no_results
\* response; with options.verify, verify_batch starts; without, every
\* validation is the fallback and the response is assembled at once.
SearchExecuteSearches ==
    /\ api = "search"
    /\ pc = "planned"
    /\ IF fanout.raised
       THEN /\ response' = Raised
            /\ pc' = "returned"
            /\ UNCHANGED <<items, task, llm_answer, validation, semaphore>>
       ELSE /\ items' = fanout.value
            /\ IF fanout.value = <<>>
               THEN /\ response' = SearchResponse("no_results", <<>>, <<>>, <<>>, <<>>, 0)
                    /\ pc' = "returned"
                    /\ UNCHANGED <<task, llm_answer, validation, semaphore>>
               ELSE IF request.options.verify
               THEN /\ task' = [i \in 1..Len(fanout.value) |-> "waiting"]
                    /\ llm_answer' = [i \in 1..Len(fanout.value) |-> Pending]
                    /\ validation' = [i \in 1..Len(fanout.value) |-> <<>>]
                    /\ semaphore' = MaxConcurrent
                    /\ pc' = "verifying"
                    /\ UNCHANGED response
               ELSE /\ response' =
                          Assembled(fanout.value,
                                    [i \in 1..Len(fanout.value) |->
                                        _fallback_validation(criteria_result.criteria)],
                                    criteria_result.criteria, request.options.classify)
                    /\ pc' = "returned"
                    /\ UNCHANGED <<task, llm_answer, validation, semaphore>>
    /\ UNCHANGED <<api, adapter, last_call, registry, chat, text, repaired, clock, scored_results, raw_responses, batch_response, request, llm, raw, instances, backend, fanout, criteria_result,
                   completed, index, counts, events, sse>>

\* verify_batch has returned: stage 4 and the response.
SearchAssemble ==
    /\ api = "search"
    /\ pc = "verifying"
    /\ \A i \in 1..Len(items) : task[i] = "finished"
    /\ response' = Assembled(items, validation, criteria_result.criteria,
                             request.options.classify)
    /\ pc' = "returned"
    /\ UNCHANGED <<api, adapter, last_call, registry, chat, text, repaired, clock, scored_results, raw_responses, batch_response, request, llm, raw, instances, backend, fanout, criteria_result, items,
                   task, llm_answer, validation, completed, semaphore, index, counts, events, sse>>


(***************************************************************************)
(* The requests, LLM answers and search results the model draws from.      *)
(***************************************************************************)
Chars == {"a", "A", " "}

Queries == SeqsUpTo(Chars, MaxQueryLen) \ {<<>>}

Query0 == <<"a">>

\* Queries of three to five tokens, each token "a" or "A".
TokenQueries ==
    {Join(tokens) : tokens \in UNION {[1..n -> {<<"a">>, <<"A">>}] : n \in 3..5}}

\* The weights an LLM answer may carry, in thousandths: no quotient of two of
\* their sums falls on a rounding tie or a sum on the 0.05 tolerance, where
\* binary floating point decides; 1500 is refused by Criterion.
RawWeights == {0, 164, 168, 460, 500, 1000, 1500}

RawCriterion(id, type, weight) == [criterion_id |-> id, type |-> type, weight |-> weight]

RawResponse(queries, criteria) == [search_queries |-> queries, criteria |-> criteria]

RawTopics(ws) == [i \in 1..Len(ws) |-> RawCriterion("", "topic", ws[i])]

Raw0 == RawResponse(<<Query0>>, RawTopics(<<1000>>))

\* A time and a topic criterion, weights 0.3 and 0.7.
RawTimeTopic ==
    RawResponse(<<Query0>>, <<RawCriterion("", "time", 300), RawCriterion("", "topic", 700)>>)

\* Four criteria whose weights sum to 0.5.
RawHalf == RawResponse(<<Query0>>, RawTopics(<<168, 168, 164, 0>>))

PlannerRaws ==
    {RawResponse(<<Query0>>, RawTopics(ws)) : ws \in SeqsUpTo(RawWeights, MaxCriteria)}
    \cup {RawResponse(<<>>, RawTopics(<<1000>>)), RawTimeTopic}
    \cup {RawResponse(<<Query0, Query0>>,
                      [i \in 1..Len(ids) |->
                          RawCriterion(ids[i], "topic", IF i = 1 THEN 1000 ELSE 0)]) :
              ids \in SeqsUpTo({"", "criterion_2"}, MaxCriteria)}

Request(query, decompose, verify_opt, classify_opt, names) ==
    [query |-> query,
     options |-> [decompose |-> decompose, verify |-> verify_opt,
                  classify |-> classify_opt, adapters |-> names,
                  timeout_seconds |-> TimeoutSeconds]]

AdapterNames == {"wikipedia", "solr"}

NoBackend == [a \in AdapterNames |-> [raises |-> FALSE, titles |-> <<>>]]

TypeDefaults ==
    /\ pc = "start"
    /\ criteria_result = NoPlan
    /\ items = <<>>
    /\ task = <<>>
    /\ llm_answer = <<>>
    /\ validation = <<>>
    /\ completed = <<>>
    /\ semaphore = 0
    /\ index = 0
    /\ counts = ZeroCounts
    /\ events = <<>>
    /\ sse = <<>>
    /\ response = NoResponse
    /\ scored_results = Returns(<<>>)
    /\ raw_responses = <<>>
    /\ batch_response = NoBatch
    /\ clock = 0
    /\ text = <<>>
    /\ repaired = <<>>
    /\ adapter = NoAdapter
    /\ last_call = NoCall
    /\ registry = NoRegistry
    /\ chat = NoChat

\* search as one function of its request and of what the planner's LLM, the
\* fan-out and the verifier's LLM calls (one answer per item) give it.
search(req, llm_outcome, llm_raw, found, answers) ==
    LET planned == plan(req.query, req.options.decompose, llm_outcome, llm_raw)
    IN  IF found.raised THEN Raised
        ELSE IF found.value = <<>>
        THEN SearchResponse("no_results", <<>>, <<>>, <<>>, <<>>, 0)
        ELSE Assembled(found.value,
                       [i \in 1..Len(found.value) |->
                           IF req.options.verify
                           THEN verify(answers[i], planned.criteria)
                           ELSE _fallback_validation(planned.criteria)],
                       planned.criteria, req.options.classify)

(***************************************************************************)
(* OpenSiftEngine.batch_search                                             *)
(***************************************************************************)
\* SearchRequest.query: min_length=1 (max_length=2000 is out of reach here).
QueryFieldOk(query) == Len(query) >= 1

\* CriteriaResult: search_queries and criteria have min_length=1.
CriteriaResultFieldsOk(search_queries, criteria) ==
    Len(search_queries) >= 1 /\ Len(criteria) >= 1

\* The SearchResponse built for a query whose search raised, lines 454-461:
\* its criteria_result is validated from {"search_queries": [], "criteria": []}.
ErrorResponse ==
    IF CriteriaResultFieldsOk(<<>>, <<>>)
    THEN SearchResponse("error", <<>>, <<>>, <<>>, <<>>, 0)
    ELSE Failed

\* Lines 436-446: one SearchRequest and one search coroutine per query; the
\* construction of a SearchRequest raises on a query it refuses.
BatchSearchStart ==
    /\ api = "batch_search"
    /\ pc = "start"
    /\ IF \E i \in 1..Len(request.queries) : ~QueryFieldOk(request.queries[i])
       THEN /\ batch_response' = BatchRaised
            /\ pc' = "returned"
            /\ UNCHANGED raw_responses
       ELSE /\ raw_responses' = [i \in 1..Len(request.queries) |-> NoResponse]
            /\ pc' = "gathering"
            /\ UNCHANGED batch_response
    /\ UNCHANGED <<api, adapter, last_call, registry, chat, text, repaired, clock, scored_results, request, llm, raw, instances, backend, fanout,
                   criteria_result, items, task, llm_answer, validation, completed, semaphore,
                   index, counts, events, sse, response>>

\* What one search of the batch may return or raise: the planner's LLM
\* answers with two or four criteria, the fan-out finds no item or one, and
\* the verifier's LLM gives any of its answers.
SearchOutcomes(query) ==
    UNION {{search(Request(query, request.options.decompose, request.options.verify,
                           request.options.classify, request.options.adapters),
                   "answers", llm_raw, Returns(ItemList(n)), [i \in 1..n |-> answer]) :
               n \in 0..1, answer \in Answers(Len(llm_raw.criteria))} :
              llm_raw \in {RawTimeTopic, RawHalf}}

\* asyncio.gather(*tasks, return_exceptions=True), line 447: the searches
\* finish in any order, each leaving its response or its exception at its
\* own position.
BatchSearchTask(i) ==
    /\ api = "batch_search"
    /\ pc = "gathering"
    /\ raw_responses[i] = NoResponse
    /\ \E outcome \in SearchOutcomes(request.queries[i]) :
          raw_responses' = [raw_responses EXCEPT ![i] = outcome]
    /\ UNCHANGED <<api, adapter, last_call, registry, chat, text, repaired, clock, scored_results, batch_response, request, llm, raw, instances, backend,
                   fanout, pc, criteria_result, items, task, llm_answer, validation, completed,
                   semaphore, index, counts, events, sse, response>>

\* Lines 449-486 (export_format is None): the loop over raw_responses and the
\* BatchSearchResponse; an exception of the loop leaves batch_search.
BatchSearchGather ==
    /\ api = "batch_search"
    /\ pc = "gathering"
    /\ \A i \in 1..Len(raw_responses) : raw_responses[i] # NoResponse
    /\ batch_response' =
          IF \E i \in 1..Len(raw_responses) :
                 raw_responses[i] = Raised /\ ErrorResponse = Failed
          THEN BatchRaised
          ELSE BatchSearchResponse("completed", Len(request.queries),
                                   [i \in 1..Len(raw_responses) |->
                                       IF raw_responses[i] = Raised THEN ErrorResponse
                                       ELSE raw_responses[i]])
    /\ pc' = "returned"
    /\ UNCHANGED <<api, adapter, last_call, registry, chat, text, repaired, clock, scored_results, raw_responses, request, llm, raw, instances, backend,
                   fanout, criteria_result, items, task, llm_answer, validation, completed,
                   semaphore, index, counts, events, sse, response>>

(***************************************************************************)
(* Spec: search and search_stream, the list _execute_searches returns      *)
(* being any list of up to MaxItems deduplicated items.                    *)
(***************************************************************************)
Init ==
    /\ api \in {"search", "search_stream"}
    /\ \E verify_opt \in BOOLEAN, classify_opt \in BOOLEAN :
          request = Request(Query0, TRUE, verify_opt, classify_opt, <<>>)
    /\ \/ llm = "raises" /\ raw = Raw0
       \/ llm = "answers" /\ raw \in {RawTimeTopic, RawHalf}
    /\ instances = <<>>
    /\ backend = NoBackend
    /\ fanout \in {Returns(ItemList(n)) : n \in 0..MaxItems}
    /\ TypeDefaults

Next ==
    \/ StreamPlan
    \/ StreamExecuteSearches
    \/ StreamNoResults
    \/ StreamLaunch
    \/ \E i \in 1..Len(items) : StreamTaskAcquire(i)
    \/ \E i \in 1..Len(items) : StreamTaskFinish(i)
    \/ StreamEmitResult
    \/ StreamDone
    \/ SearchPlan
    \/ SearchExecuteSearches
    \/ \E i \in 1..Len(items) : BatchTaskAcquire(i)
    \/ \E i \in 1..Len(items) : BatchTaskFinish(i)
    \/ SearchAssemble

Spec == Init /\ [][Next]_vars

(***************************************************************************)
(* SpecPlanner: engine.plan over the queries and the LLM answers.          *)
(***************************************************************************)
InitPlanner ==
    /\ api = "plan"
    /\ \/ /\ request = Request(Query0, TRUE, TRUE, TRUE, <<>>)
          /\ llm = "answers"
          /\ raw \in PlannerRaws
       \/ /\ \E q \in Queries \cup TokenQueries, decompose \in BOOLEAN :
                request = Request(q, decompose, TRUE, TRUE, <<>>)
          /\ llm \in {"none", "raises", "answers"}
          /\ raw = RawTimeTopic
    /\ instances = <<>>
    /\ backend = NoBackend
    /\ fanout = Returns(<<>>)
    /\ TypeDefaults

NextPlanner == EnginePlan

SpecPlanner == InitPlanner /\ [][NextPlanner]_vars

(***************************************************************************)
(* SpecVerifier: EvidenceVerifier.verify over the criteria and the LLM's   *)
(* responses.                                                              *)
(***************************************************************************)
CriterionIds == {"criterion_1", "criterion_2"}

VerifierCriteria ==
    {[i \in 1..Len(ids) |-> Criterion(ids[i], "topic", 500)] :
        ids \in SeqsUpTo(CriterionIds, 2) \ {<<>>}}

RawAssessment ==
    [criterion_id : CriterionIds \cup {"criterion_9"},
     assessment : {"support", "reject", "invalid_value"}]

VerifierOutcomes == {Raises} \cup {Returns(e) : e \in SeqsUpTo(RawAssessment, MaxEntries)}

InitVerifier ==
    /\ api = "verify"
    /\ request = Request(Query0, TRUE, TRUE, TRUE, <<>>)
    /\ llm = "answers"
    /\ raw = Raw0
    /\ instances = <<>>
    /\ backend = NoBackend
    /\ fanout = Returns(ItemList(1))
    /\ pc = "start"
    /\ \E criteria \in VerifierCriteria : criteria_result = CriteriaResult(<<Query0>>, criteria)
    /\ items = ItemList(1)
    /\ task = <<"running">>
    /\ \E outcome \in VerifierOutcomes : llm_answer = <<outcome>>
    /\ validation = << <<>> >>
    /\ completed = <<>>
    /\ semaphore = 0
    /\ index = 0
    /\ counts = ZeroCounts
    /\ events = <<>>
    /\ sse = <<>>
    /\ response = NoResponse
    /\ scored_results = Returns(<<>>)
    /\ raw_responses = <<>>
    /\ batch_response = NoBatch
    /\ clock = 0
    /\ text = <<>>
    /\ repaired = <<>>
    /\ adapter = NoAdapter
    /\ last_call = NoCall
    /\ registry = NoRegistry
    /\ chat = NoChat

NextVerifier == VerifierVerify

SpecVerifier == InitVerifier /\ [][NextVerifier]_vars

(***************************************************************************)
(* SpecClassifier: ResultClassifier.classify over criteria the planner     *)
(* returns for an LLM response and the validations the verifier returns    *)
(* for them.                                                               *)
(***************************************************************************)
\* Weights of LLM responses, by number of criteria: 1.0; 0.3 and 0.7; twice
\* 0.52 (sum 1.04, within the tolerance); three thirds; the four of RawHalf.
ClassifierWeights ==
    {ws \in {<<1000>>, <<300, 700>>, <<520, 520>>, <<340, 330, 330>>, <<168, 168, 164, 0>>} :
        Len(ws) <= MaxCriteria}

\* The response names no criterion_id, or names criterion_2 for its first
\* criterion only.
ClassifierIds(n) ==
    {[i \in 1..n |-> ""], [i \in 1..n |-> IF i = 1 THEN "criterion_2" ELSE ""]}

ClassifierRaws ==
    {RawResponse(<<Query0>>,
                 [i \in 1..Len(ws) |-> RawCriterion(ids[i], types[i], ws[i])]) :
        <<ws, ids, types>> \in
            UNION {{ws} \X ClassifierIds(Len(ws)) \X [1..Len(ws) -> {"time", "topic"}] :
                      ws \in ClassifierWeights}}

\* One entry per criterion, in declaration order, a criterion_id carrying the
\* one assessment of its entry in the verifier's LLM response.
ValidationsFor(criteria) ==
    {[i \in 1..Len(criteria) |->
         [criterion_id |-> criteria[i].criterion_id, assessment |-> a[i]]] :
        a \in {b \in [1..Len(criteria) -> AssessmentType] :
                  \A i, j \in 1..Len(criteria) :
                      criteria[i].criterion_id = criteria[j].criterion_id => b[i] = b[j]}}

InitClassifier ==
    /\ api = "classify"
    /\ request = Request(Query0, TRUE, TRUE, TRUE, <<>>)
    /\ llm = "answers"
    /\ raw \in ClassifierRaws
    /\ instances = <<>>
    /\ backend = NoBackend
    /\ fanout = Returns(ItemList(1))
    /\ pc = "start"
    /\ criteria_result = Planned
    /\ items = ItemList(1)
    /\ task = <<"finished">>
    /\ llm_answer = <<Pending>>
    /\ \E v \in ValidationsFor(criteria_result.criteria) : validation = <<v>>
    /\ completed = <<>>
    /\ semaphore = 0
    /\ index = 0
    /\ counts = ZeroCounts
    /\ events = <<>>
    /\ sse = <<>>
    /\ response = NoResponse
    /\ scored_results = Returns(<<>>)
    /\ raw_responses = <<>>
    /\ batch_response = NoBatch
    /\ clock = 0
    /\ text = <<>>
    /\ repaired = <<>>
    /\ adapter = NoAdapter
    /\ last_call = NoCall
    /\ registry = NoRegistry
    /\ chat = NoChat

NextClassifier == ClassifierClassify

SpecClassifier == InitClassifier /\ [][NextClassifier]_vars

(***************************************************************************)
(* LLMClient._repair_json.  A text is a sequence of characters; a parsed   *)
(* JSON value is written as its text without the whitespace between        *)
(* tokens, which names the value of a text without duplicate keys.         *)
(***************************************************************************)
Quote == "\""

Backslash == "\\"

Tab == "\t"

Newline == "\n"

\* What Python's \s and str.strip() take for whitespace, among the characters
\* of the texts.
Whitespace == {Space, Tab, Newline}

\* str.find: the first index of c, 0 when there is none (Python: -1).
Find(s, c) ==
    IF \E i \in 1..Len(s) : s[i] = c
    THEN CHOOSE i \in 1..Len(s) : s[i] = c /\ \A j \in 1..(i - 1) : s[j] # c
    ELSE 0

\* str.count of one character.
Count(s, c) == Cardinality({i \in 1..Len(s) : s[i] = c})

\* str.rstrip() and str.rstrip(",").
RECURSIVE RStripOf(_, _)
RStripOf(s, chars) ==
    IF s # <<>> /\ s[Len(s)] \in chars THEN RStripOf(SubSeq(s, 1, Len(s) - 1), chars) ELSE s

Repeat(c, n) == [i \in 1..n |-> c]

Max(a, b) == IF a >= b THEN a ELSE b

RECURSIVE SkipWs(_, _)
SkipWs(s, i) == IF i <= Len(s) /\ s[i] \in Whitespace THEN SkipWs(s, i + 1) ELSE i

\* json.loads on the characters of the texts: objects, arrays and strings.
ParseFailed == [ok |-> FALSE, pos |-> 0, out |-> <<>>]

Parsed(pos, out) == [ok |-> TRUE, pos |-> pos, out |-> out]

Escapes == {Quote, Backslash, "/", "b", "f", "n", "r", "t"}

\* The string whose opening quote is before position i.
RECURSIVE ParseString(_, _, _)
ParseString(s, i, acc) ==
    IF i > Len(s) THEN ParseFailed
    ELSE IF s[i] = Quote THEN Parsed(i + 1, <<Quote>> \o acc \o <<Quote>>)
    ELSE IF s[i] = Backslash
    THEN IF i + 1 <= Len(s) /\ s[i + 1] \in Escapes
         THEN ParseString(s, i + 2, acc \o <<s[i], s[i + 1]>>)
         ELSE ParseFailed
    ELSE IF s[i] \in {Tab, Newline} THEN ParseFailed
    ELSE ParseString(s, i + 1, Append(acc, s[i]))

RECURSIVE ParseValue(_, _)
RECURSIVE ParseMembers(_, _, _)
RECURSIVE ParseElements(_, _, _)

\* The members of the object after position i - 1, up to its closing brace.
ParseMembers(s, i, acc) ==
    LET j == SkipWs(s, i)
        key == IF j <= Len(s) /\ s[j] = Quote THEN ParseString(s, j + 1, <<>>) ELSE ParseFailed
        colon == SkipWs(s, key.pos)
        val == IF key.ok /\ colon <= Len(s) /\ s[colon] = ":"
               THEN ParseValue(s, colon + 1)
               ELSE ParseFailed
        next == SkipWs(s, val.pos)
        member == acc \o key.out \o <<":">> \o val.out
    IN  IF ~val.ok \/ next > Len(s) THEN ParseFailed
        ELSE IF s[next] = "," THEN ParseMembers(s, next + 1, Append(member, ","))
        ELSE IF s[next] = "}" THEN Parsed(next + 1, Append(member, "}"))
        ELSE ParseFailed

\* The elements of the array after position i - 1, up to its closing bracket.
ParseElements(s, i, acc) ==
    LET val == ParseValue(s, i)
        next == SkipWs(s, val.pos)
        element == acc \o val.out
    IN  IF ~val.ok \/ next > Len(s) THEN ParseFailed
        ELSE IF s[next] = "," THEN ParseElements(s, next + 1, Append(element, ","))
        ELSE IF s[next] = "]" THEN Parsed(next + 1, Append(element, "]"))
        ELSE ParseFailed

ParseValue(s, i) ==
    LET j == SkipWs(s, i)
    IN  IF j > Len(s) THEN ParseFailed
        ELSE IF s[j] = Quote THEN ParseString(s, j + 1, <<>>)
        ELSE IF s[j] = "{"
        THEN LET k == SkipWs(s, j + 1)
             IN  IF k <= Len(s) /\ s[k] = "}" THEN Parsed(k + 1, <<"{", "}">>)
                 ELSE ParseMembers(s, j + 1, <<"{">>)
        ELSE IF s[j] = "["
        THEN LET k == SkipWs(s, j + 1)
             IN  IF k <= Len(s) /\ s[k] = "]" THEN Parsed(k + 1, <<"[", "]">>)
                 ELSE ParseElements(s, j + 1, <<"[">>)
        ELSE ParseFailed

\* json.loads: the value, or JSONDecodeError.
Loads(s) ==
    LET val == ParseValue(s, 1)
    IN  IF val.ok /\ SkipWs(s, val.pos) = Len(s) + 1 THEN Returns(val.out) ELSE Raises

\* re.sub(r",\s*([}\]])", r"\1", text), from position i on.
RECURSIVE RemoveTrailingCommas(_, _)
RemoveTrailingCommas(s, i) ==
    IF i > Len(s) THEN <<>>
    ELSE LET j == SkipWs(s, i + 1)
         IN  IF s[i] = "," /\ j <= Len(s) /\ s[j] \in {"}", "]"}
             THEN <<s[j]>> \o RemoveTrailingCommas(s, j + 1)
             ELSE <<s[i]>> \o RemoveTrailingCommas(s, i + 1)

\* text.replace("\t", "\\t")
RECURSIVE EscapeTabs(_)
EscapeTabs(s) ==
    IF s = <<>> THEN <<>>
    ELSE (IF Head(s) = Tab THEN <<Backslash, "t">> ELSE <<Head(s)>>) \o EscapeTabs(Tail(s))

\* re.sub(r'("\s*)\n(\s*")', r"\1,\n\2", text): a comma before the last
\* newline of a run of whitespace between two quotes.
RECURSIVE CommaBetweenLines(_, _)
CommaBetweenLines(s, i) ==
    IF i > Len(s) THEN <<>>
    ELSE LET j == SkipWs(s, i + 1)
             newlines == {k \in (i + 1)..(j - 1) : s[k] = Newline}
         IN  IF s[i] = Quote /\ j <= Len(s) /\ s[j] = Quote /\ newlines # {}
             THEN LET last == CHOOSE k \in newlines : \A m \in newlines : m <= k
                  IN  SubSeq(s, i, last - 1) \o <<",">> \o SubSeq(s, last, j)
                      \o CommaBetweenLines(s, j + 1)
             ELSE <<s[i]>> \o CommaBetweenLines(s, i + 1)

\* re.sub of (a)\s*(b) by \1,\2 for two characters a and b.
RECURSIVE CommaBetween(_, _, _, _)
CommaBetween(s, i, a, b) ==
    IF i > Len(s) THEN <<>>
    ELSE LET j == SkipWs(s, i + 1)
         IN  IF s[i] = a /\ j <= Len(s) /\ s[j] = b
             THEN <<a, ",", b>> \o CommaBetween(s, j + 1, a, b)
             ELSE <<s[i]>> \o CommaBetween(s, i + 1, a, b)

\* Lines 377-381: the five substitutions that insert missing commas.
MissingCommas(s) ==
    LET lines == CommaBetweenLines(s, 1)
        objects == CommaBetween(lines, 1, "}", "{")
        arrays == CommaBetween(objects, 1, "]", "[")
        opened == CommaBetween(arrays, 1, Quote, "{")
    IN  CommaBetween(opened, 1, "}", Quote)

\* Lines 389-408.
RECURSIVE _escape_newlines_in_strings(_, _, _)
_escape_newlines_in_strings(s, in_string, escaped) ==
    IF s = <<>> THEN <<>>
    ELSE LET ch == Head(s)
         IN  IF escaped THEN <<ch>> \o _escape_newlines_in_strings(Tail(s), in_string, FALSE)
             ELSE IF ch = Backslash
             THEN <<ch>> \o _escape_newlines_in_strings(Tail(s), in_string, TRUE)
             ELSE LET now_in == IF ch = Quote THEN ~in_string ELSE in_string
                  IN  IF now_in /\ ch = Newline
                      THEN <<Backslash, "n">>
                           \o _escape_newlines_in_strings(Tail(s), now_in, FALSE)
                      ELSE <<ch>> \o _escape_newlines_in_strings(Tail(s), now_in, FALSE)

\* The None that _repair_json returns when the repair fails.
NoneJson == <<"None">>

_repair_json(s) ==
    LET brace_start == Find(s, "{")
        from_brace == SubSeq(s, brace_start, Len(s))
        open_b == Count(from_brace, "{") - Count(from_brace, "}")
        open_sq == Count(from_brace, "[") - Count(from_brace, "]")
        closed == IF open_b > 0 \/ open_sq > 0
                  THEN RStripOf(RStripOf(from_brace, Whitespace), {","})
                       \o Repeat("]", Max(open_sq, 0)) \o Repeat("}", Max(open_b, 0))
                  ELSE from_brace
        basic == EscapeTabs(RemoveTrailingCommas(closed, 1))
        with_commas == MissingCommas(basic)
        escaped == _escape_newlines_in_strings(with_commas, FALSE, FALSE)
    IN  IF brace_start = 0 THEN NoneJson
        ELSE IF ~Loads(basic).raised THEN Loads(basic).value
        ELSE IF ~Loads(with_commas).raised THEN Loads(with_commas).value
        ELSE IF ~Loads(escaped).raised THEN Loads(escaped).value
        ELSE NoneJson

RepairJson ==
    /\ api = "_repair_json"
    /\ pc = "start"
    /\ repaired' = _repair_json(text)
    /\ pc' = "returned"
    /\ UNCHANGED <<api, adapter, last_call, registry, chat, text, clock, scored_results, raw_responses, batch_response, request,
                   llm, raw, instances, backend, fanout, criteria_result, items, task,
                   llm_answer, validation, completed, semaphore, index, counts, events, sse,
                   response>>

(***************************************************************************)
(* SpecRepair: _repair_json on texts that are valid JSON.                  *)
(***************************************************************************)
StringChars == {"a", ",", Space, "{", "}", "]"}

JsonStrings ==
    {<<Quote>> \o body \o <<Quote>> :
        body \in SeqsUpTo(StringChars, MaxStringLen) \cup {<<Backslash, "t">>}}

Gaps == {<<>>, <<Space>>, <<Tab>>, <<Newline>>}

JsonObjects ==
    {<<"{", "}">>}
    \cup {<<"{">> \o gap \o <<Quote, "a", Quote, ":">> \o val \o <<"}">> :
             gap \in Gaps, val \in JsonStrings \cup {<<"{", "}">>, <<"[", "]">>}}
    \cup {<<"{", Quote, "a", Quote, ":", Quote, Quote, ",">> \o gap
              \o <<Quote, "b", Quote, ":", Quote, Quote, "}">> : gap \in Gaps}

ValidJsonTexts ==
    JsonObjects \cup JsonStrings
    \cup {<<"[">> \o val \o <<"]">> : val \in {<<>>, <<"{", "}">>, <<Quote, Quote>>}}
    \cup {gap \o <<"{", "}">> \o gap : gap \in Gaps}

InitRepair ==
    /\ api = "_repair_json"
    /\ request = Request(Query0, TRUE, TRUE, TRUE, <<>>)
    /\ llm = "answers"
    /\ raw = Raw0
    /\ instances = <<>>
    /\ backend = NoBackend
    /\ fanout = Returns(<<>>)
    /\ pc = "start"
    /\ criteria_result = NoPlan
    /\ items = <<>>
    /\ task = <<>>
    /\ llm_answer = <<>>
    /\ validation = <<>>
    /\ completed = <<>>
    /\ semaphore = 0
    /\ index = 0
    /\ counts = ZeroCounts
    /\ events = <<>>
    /\ sse = <<>>
    /\ response = NoResponse
    /\ scored_results = Returns(<<>>)
    /\ raw_responses = <<>>
    /\ batch_response = NoBatch
    /\ clock = 0
    /\ text \in ValidJsonTexts
    /\ repaired = <<>>
    /\ adapter = NoAdapter
    /\ last_call = NoCall
    /\ registry = NoRegistry
    /\ chat = NoChat

NextRepair == RepairJson

SpecRepair == InitRepair /\ [][NextRepair]_vars

(***************************************************************************)
(* SpecTimeout: search and search_stream while time passes.  The event     *)
(* loop runs every step of the engine that is ready; the return of a       *)
(* verifier LLM call depends on the LLM service and may never come.        *)
(***************************************************************************)
\* A second passes.  Nothing in engine.py, in the endpoints or in the LLM
\* client reads the clock or options.timeout_seconds.
Tick ==
    /\ clock <= request.options.timeout_seconds
    /\ clock' = clock + 1
    /\ UNCHANGED <<api, adapter, last_call, registry, chat, text, repaired, scored_results, raw_responses, batch_response, request, llm, raw,
                   instances, backend, fanout, pc, criteria_result, items, task, llm_answer,
                   validation, completed, semaphore, index, counts, events, sse, response>>

\* The steps that need no answer from outside the process.
EngineStep ==
    \/ StreamPlan
    \/ StreamExecuteSearches
    \/ StreamNoResults
    \/ StreamLaunch
    \/ \E i \in 1..Len(items) : StreamTaskAcquire(i)
    \/ StreamEmitResult
    \/ StreamDone
    \/ SearchPlan
    \/ SearchExecuteSearches
    \/ \E i \in 1..Len(items) : BatchTaskAcquire(i)
    \/ SearchAssemble

InitTimeout ==
    /\ api \in {"search", "search_stream"}
    /\ request = Request(Query0, TRUE, TRUE, TRUE, <<>>)
    /\ llm = "answers"
    /\ raw = RawTimeTopic
    /\ instances = <<>>
    /\ backend = NoBackend
    /\ fanout \in {Returns(ItemList(n)) : n \in 0..MaxItems}
    /\ TypeDefaults

NextTimeout ==
    \/ Next
    \/ Tick

SpecTimeout ==
    InitTimeout /\ [][NextTimeout]_vars /\ WF_vars(EngineStep) /\ WF_vars(Tick)

(***************************************************************************)
(* SpecBatch: batch_search over one to MaxQueries queries.                 *)
(***************************************************************************)
\* BatchSearchRequest.queries is a list[str] of 1 to 20 strings; the strings
\* themselves are not constrained.
BatchQueries == {qs \in SeqsUpTo({Query0, <<"A">>, <<>>}, MaxQueries) : Len(qs) >= 1}

BatchSearchRequest(queries, decompose, verify_opt, classify_opt) ==
    [queries |-> queries,
     options |-> [decompose |-> decompose, verify |-> verify_opt,
                  classify |-> classify_opt, adapters |-> <<>>,
                  timeout_seconds |-> TimeoutSeconds]]

InitBatch ==
    /\ api = "batch_search"
    /\ \E queries \in BatchQueries, classify_opt \in BOOLEAN :
          request = BatchSearchRequest(queries, TRUE, TRUE, classify_opt)
    /\ llm = "answers"
    /\ raw = Raw0
    /\ instances = <<>>
    /\ backend = NoBackend
    /\ fanout = Returns(<<>>)
    /\ TypeDefaults

NextBatch ==
    \/ BatchSearchStart
    \/ \E i \in 1..Len(raw_responses) : BatchSearchTask(i)
    \/ BatchSearchGather

SpecBatch == InitBatch /\ [][NextBatch]_vars

(***************************************************************************)
(* SpecProgram: search and search_stream up to the search stage, the list  *)
(* of items being what _execute_searches computes from the registry's      *)
(* initialized adapters and what their search tasks do.                    *)
(***************************************************************************)
Titles == {<<>>, << <<"a">> >>, << <<"a">>, <<"A", " ">> >>}

BackendOutcomes ==
    {[raises |-> TRUE, titles |-> <<>>]} \cup {[raises |-> FALSE, titles |-> t] : t \in Titles}

AdapterLists == {<<>>, <<"wikipedia">>, <<"wikipedia", "solr">>}

InitProgram ==
    /\ api \in {"search", "search_stream"}
    /\ \E names \in AdapterLists : request = Request(Query0, TRUE, TRUE, TRUE, names)
    /\ llm = "raises"
    /\ raw = Raw0
    /\ instances \in AdapterLists
    /\ backend \in [AdapterNames -> BackendOutcomes]
    /\ fanout = _execute_searches(instances, request.options.adapters, backend,
                                  plan(request.query, request.options.decompose, llm,
                                       raw).search_queries)
    /\ TypeDefaults

NextProgram ==
    \/ SearchPlan
    \/ SearchExecuteSearches
    \/ StreamPlan
    \/ StreamExecuteSearches
    \/ StreamNoResults

SpecProgram == InitProgram /\ [][NextProgram]_vars

(***************************************************************************)
(* The events of a streaming session.                                      *)
(***************************************************************************)
Positions(kind) == {i \in 1..Len(events) : events[i].event = kind}

EventsOf(kind) == SelectSeq(events, LAMBDA e : e.event = kind)

EndsWithDone == events # <<>> /\ events[Len(events)].event = "done"

Terminal == {"done", "error"}

SsePositions(kinds) == {i \in 1..Len(sse) : sse[i].event \in kinds}

SseEndsWithDone == sse # <<>> /\ sse[Len(sse)].event = "done"

(***************************************************************************)
(* C1: in a search_stream session that ends with a done event, the         *)
(* criteria event is emitted before the search_complete event, the         *)
(* search_complete event before every result event, and every result       *)
(* event before the done event.                                            *)
(***************************************************************************)
C1_StreamOrder ==
    EndsWithDone =>
        /\ Positions("criteria") # {}
        /\ Positions("search_complete") # {}
        /\ \A i \in Positions("criteria"), j \in Positions("search_complete") : i < j
        /\ \A i \in Positions("search_complete"), j \in Positions("result") : i < j
        /\ \A i \in Positions("result"), j \in Positions("done") : i < j

\* A session that has ended with done after two or more result events.
C1_Witness == EndsWithDone /\ Cardinality(Positions("result")) >= 2

\* The generator of search_stream has a statement to run, a finished task to
\* consume or the done event to yield, or one of its verification tasks can
\* enter the semaphore or is waiting for its verifier call.
StreamCanStep ==
    \/ pc \in {"start", "planned", "searched"}
    \/ /\ pc = "verifying"
       /\ \/ index < Len(completed)
          \/ index = Len(items)
          \/ Running # {}
          \/ \E i \in 1..Len(items) : MayAcquire(i)

C3_ResultEvents ==
    EndsWithDone =>
        LET N == Len(fanout.value)
            results == EventsOf("result")
            done == events[Len(events)].data
        IN  /\ Len(results) = N
            /\ \A k \in 1..Len(results) :
                  results[k].data.index = k /\ results[k].data.total = N
            /\ done.total_scanned = N
            /\ N = 0 =>
                  /\ done.status = "no_results"
                  /\ done.perfect_count = 0
                  /\ done.partial_count = 0
                  /\ done.rejected_count = 0

\* A session over two or more items that has ended with done.
C3_Witness == EndsWithDone /\ Len(fanout.value) >= 2 /\ Len(EventsOf("result")) >= 2

(***************************************************************************)
(* C4: a SearchResponse that search() returns with options.classify set    *)
(* has no item in both perfect_results and partial_results, only results   *)
(* classified perfect in perfect_results and only results classified       *)
(* partial in partial_results, and                                         *)
(* rejected_count + len(perfect_results) + len(partial_results) equal to   *)
(* total_scanned.                                                          *)
(***************************************************************************)
C4_ClassifiedResponse ==
    (api = "search" /\ pc = "returned" /\ request.options.classify
        /\ response.status # "raised") =>
        LET perfect == response.perfect_results
            partial == response.partial_results
        IN  /\ \A i \in 1..Len(perfect), j \in 1..Len(partial) :
                  perfect[i].result # partial[j].result
            /\ \A i \in 1..Len(perfect) : perfect[i].classification = "perfect"
            /\ \A j \in 1..Len(partial) : partial[j].classification = "partial"
            /\ response.rejected_count + Len(perfect) + Len(partial)
                  = response.total_scanned
            /\ response.total_scanned = Len(items)

\* A classified response with a perfect, a partial and a rejected result.
C4_Witness ==
    /\ api = "search" /\ pc = "returned" /\ request.options.classify
    /\ response.status = "completed"
    /\ response.perfect_results # <<>>
    /\ response.partial_results # <<>>
    /\ response.rejected_count >= 1

(***************************************************************************)
(* C5: at every moment of a request at most search.max_concurrent_queries  *)
(* verifier calls are in flight, in streaming mode, where the tasks of all *)
(* items exist from the start, and in complete mode; the semaphore counts  *)
(* the free slots.                                                         *)
(***************************************************************************)
C5_BoundedVerifierCalls ==
    /\ Cardinality(Running) <= MaxConcurrent
    /\ pc = "verifying" =>
          /\ Len(task) = Len(items)
          /\ semaphore = MaxConcurrent - Cardinality(Running)

\* Streaming: the semaphore is full and a task is waiting for it.
C5_Witness ==
    /\ api = "search_stream"
    /\ Cardinality(Running) = MaxConcurrent
    /\ \E i \in 1..Len(task) : task[i] = "waiting"

(***************************************************************************)
(* C6: in streaming mode the result events come in the order in which the  *)
(* verification tasks complete, not in item order: the k-th result event   *)
(* is that of the k-th task to complete; and while the loop runs, a        *)
(* completed task that has not been emitted is emitted next whatever the   *)
(* tasks submitted before it are doing.                                    *)
(***************************************************************************)
C6_CompletionOrder ==
    api = "search_stream" =>
        LET results == EventsOf("result")
        IN  /\ Len(results) <= Len(completed)
            /\ \A k \in 1..Len(results) : results[k].data.result = items[completed[k]]
            /\ \A k \in 1..Len(results) : results[k].data.index = k
            /\ (pc = "verifying" /\ index < Len(completed)) =>
                  /\ Len(results) = index
                  /\ task[completed[index + 1]] = "finished"

\* The result event of item 2 has been emitted while item 1 is being verified.
C6_Witness ==
    /\ api = "search_stream"
    /\ Len(task) >= 2
    /\ task[1] = "running"
    /\ EventsOf("result") # <<>>
    /\ EventsOf("result")[1].data.result = items[2]

(***************************************************************************)
(* C7: when the verifier call of an item fails, that item and no other     *)
(* gets the fallback validation (every criterion insufficient_information);*)
(* the other items keep the assessments of their own calls and are         *)
(* delivered with them; and the request does not fail for it: a streaming  *)
(* session that ends with done has a result event for every item, a        *)
(* completed response holds every item, and an error event or an exception *)
(* of search comes from an item whose verifier call did not fail.          *)
(***************************************************************************)
Degraded(i) == llm_answer[i] = <<>>

Delivered(i) ==
    IF api = "search_stream"
    THEN \E k \in Positions("result") :
            /\ events[k].data.result = items[i]
            /\ events[k].data.validation = validation[i]
    ELSE IF request.options.classify
    THEN \E r \in Range(response.perfect_results) \cup Range(response.partial_results)
                  \cup Range(response.rejected_results) :
            r.result = items[i] /\ r.validation = validation[i]
    ELSE \E r \in Range(response.raw_results) :
            r.result = items[i] /\ r.validation = validation[i]

Selected ==
    {a \in Range(instances) :
        request.options.adapters = <<>> \/ a \in Range(request.options.adapters)}

Surviving == {a \in Selected : ~backend[a].raises /\ backend[a].titles # <<>>}

C8_TaskFailureIsolated ==
    pc \notin {"start", "planned"} =>
        /\ response.status # "raised"
        /\ Positions("error") = {}
        /\ Surviving # {} => items # <<>>
        /\ (api = "search" /\ Surviving = {}) =>
              response.status = "no_results" /\ response.total_scanned = 0

(***************************************************************************)
(* C9: QueryPlanner.plan returns a CriteriaResult for every request and    *)
(* never raises; when decomposition is disabled (and then the LLM is not   *)
(* called), when no LLM client is configured, or when the LLM call or the  *)
(* validation of its response fails, the result is the heuristic fallback  *)
(* plan; otherwise it is the parsed response.                              *)
(***************************************************************************)
C9_PlanNeverRaises ==
    (api = "plan" /\ pc = "returned") =>
        LET decompose == request.options.decompose
        IN  /\ criteria_result # Failed
            /\ Len(criteria_result.search_queries) >= 1
            /\ Len(criteria_result.criteria) >= 1
            /\ ~decompose => ~LlmCalled(decompose, llm)
            /\ IF ~decompose \/ llm = "none" \/ llm = "raises"
                  \/ _parse_criteria_response(raw) = Failed
               THEN criteria_result = _create_simple_result(request.query)
               ELSE criteria_result = _parse_criteria_response(raw)

\* The LLM answered, its response did not validate, and plan returned the
\* heuristic fallback.
C9_Witness ==
    /\ api = "plan" /\ pc = "returned"
    /\ request.options.decompose
    /\ llm = "answers"
    /\ _parse_criteria_response(raw) = Failed
    /\ criteria_result = _create_simple_result(request.query)

(***************************************************************************)
(* C10: in every CriteriaResult the planner returns, from the LLM path or  *)
(* from the heuristic fallback, every weight lies in [0, 1] and the        *)
(* weights sum to 1 within 0.001.                                          *)
(***************************************************************************)
C10_WeightsSumToOne ==
    (api = "plan" /\ pc = "returned") =>
        /\ \A i \in 1..Len(criteria_result.criteria) :
              WeightFieldOk(criteria_result.criteria[i].weight)
        /\ Abs(SumSeq(Weights(criteria_result)) - 1000) <= 1

(***************************************************************************)
(* C11: the ValidationResult the verifier produces for criteria C, from an *)
(* LLM response or as the fallback, has exactly one entry per criterion of *)
(* C, in declaration order, so that its criterion_ids are those of C; an   *)
(* assessment outside the enum has become insufficient_information, a      *)
(* criterion without an entry has insufficient_information, an entry with  *)
(* another criterion_id is gone, and an entry that is the only one of its  *)
(* criterion and carries an assessment of the enum keeps it.               *)
(***************************************************************************)
C11_OneEntryPerCriterion ==
    (api = "verify" /\ pc = "returned") =>
        LET C == criteria_result.criteria
            v == validation[1]
            entries == llm_answer[1].value
            of(i) == {k \in 1..Len(entries) : entries[k].criterion_id = C[i].criterion_id}
        IN  /\ Len(v) = Len(C)
            /\ \A i \in 1..Len(C) : v[i].criterion_id = C[i].criterion_id
            /\ {v[i].criterion_id : i \in 1..Len(v)} = {C[i].criterion_id : i \in 1..Len(C)}
            /\ \A i \in 1..Len(v) : v[i].assessment \in AssessmentType
            /\ \A i \in 1..Len(C) :
                  /\ of(i) = {} => v[i].assessment = "insufficient_information"
                  /\ \A k \in of(i) :
                        of(i) = {k} =>
                            v[i].assessment =
                                IF entries[k].assessment \in AssessmentType
                                THEN entries[k].assessment
                                ELSE "insufficient_information"

\* Two criteria; the response holds an entry of an unknown criterion and an
\* entry of the second criterion with an assessment outside the enum, and
\* none of the first.
C11_Witness ==
    /\ api = "verify" /\ pc = "returned"
    /\ Len(criteria_result.criteria) = 2
    /\ criteria_result.criteria[1].criterion_id = "criterion_1"
    /\ criteria_result.criteria[2].criterion_id = "criterion_2"
    /\ llm_answer[1] = Returns(<<[criterion_id |-> "criterion_9", assessment |-> "support"],
                                 [criterion_id |-> "criterion_2",
                                  assessment |-> "invalid_value"]>>)
    /\ validation[1] = _fallback_validation(criteria_result.criteria)

(***************************************************************************)
(* C12: ResultClassifier.classify gives the label of the rule table.  One  *)
(* criterion: support is perfect, somewhat_support is partial, anything    *)
(* else is reject.  Several criteria: perfect when every assessment is     *)
(* support; otherwise partial exactly when some criterion whose type is    *)
(* not "time" is assessed support or somewhat_support; otherwise reject.   *)
(***************************************************************************)
RuleTable(criteria, assessments) ==
    IF Len(criteria) = 1
    THEN CASE assessments[1].assessment = "support" -> "perfect"
           [] assessments[1].assessment = "somewhat_support" -> "partial"
           [] OTHER -> "reject"
    ELSE IF \A i \in 1..Len(criteria) : assessments[i].assessment = "support"
    THEN "perfect"
    ELSE IF \E i \in 1..Len(criteria) :
               /\ criteria[i].type # "time"
               /\ assessments[i].assessment \in {"support", "somewhat_support"}
    THEN "partial"
    ELSE "reject"

Classified == api = "classify" /\ pc = "returned" /\ ~scored_results.raised

C12_RuleTable ==
    Classified =>
        scored_results.value[1].classification
            = RuleTable(criteria_result.criteria, validation[1])

(***************************************************************************)
(* C13: the weighted_score of a ScoredResult is min(1, the sum over the    *)
(* assessments of value x weight of the assessed criterion), with support  *)
(* 1.0, somewhat_support 0.5 and the other two 0, and lies in [0, 1]; a    *)
(* classify on criteria whose weights are all in [0, 1] returns a          *)
(* ScoredResult; criteria [time 0.3, topic 0.7] assessed [support, reject] *)
(* give the score 0.3 and the classification reject.                       *)
(***************************************************************************)
AssessmentValue(assessment) ==
    CASE assessment = "support" -> 10
      [] assessment = "somewhat_support" -> 5
      [] OTHER -> 0

C13_WeightedScore ==
    (api = "classify" /\ pc = "returned") =>
        LET criteria == criteria_result.criteria
            v == validation[1]
            sum == SumSeq([i \in 1..Len(criteria) |->
                              AssessmentValue(v[i].assessment) * criteria[i].weight])
        IN  /\ (\A i \in 1..Len(criteria) : WeightFieldOk(criteria[i].weight)) =>
                  ~scored_results.raised
            /\ ~scored_results.raised =>
                  LET scored == scored_results.value[1]
                  IN  /\ scored.weighted_score = Min(10000, sum)
                      /\ scored.weighted_score >= 0
                      /\ scored.weighted_score <= 10000
                      /\ ( /\ Len(criteria) = 2
                           /\ criteria[1].type = "time" /\ criteria[1].weight = 300
                           /\ criteria[2].type = "topic" /\ criteria[2].weight = 700
                           /\ v[1].assessment = "support" /\ v[2].assessment = "reject" ) =>
                            scored.weighted_score = 3000 /\ scored.classification = "reject"

\* The same two statements for the criteria lists whose criterion_ids are
\* pairwise distinct.
DistinctIds ==
    \A i, j \in 1..Len(criteria_result.criteria) :
        criteria_result.criteria[i].criterion_id = criteria_result.criteria[j].criterion_id
            => i = j

RuleTableForDistinctIds == DistinctIds => C12_RuleTable

WeightedScoreForDistinctIds == DistinctIds => C13_WeightedScore

(***************************************************************************)
(* C14: batch_search returns one SearchResponse per query, in query order, *)
(* with total_queries the number of queries; a query whose search raised   *)
(* has in its position a SearchResponse of status "error" with             *)
(* total_scanned = 0, and the other queries keep their responses.          *)
(***************************************************************************)
C14_BatchSearch ==
    (api = "batch_search" /\ pc = "returned") =>
        /\ batch_response.status = "completed"
        /\ batch_response.total_queries = Len(request.queries)
        /\ Len(batch_response.results) = Len(request.queries)
        /\ \A i \in 1..Len(request.queries) :
              IF raw_responses[i] = Raised
              THEN /\ batch_response.results[i].status = "error"
                   /\ batch_response.results[i].total_scanned = 0
              ELSE batch_response.results[i] = raw_responses[i]

\* The same statement for the batches in which every search returned.
BatchWithoutFailure ==
    ( /\ api = "batch_search"
      /\ pc = "returned"
      /\ \A i \in 1..Len(request.queries) : QueryFieldOk(request.queries[i])
      /\ \A i \in 1..Len(raw_responses) : raw_responses[i] # Raised ) => C14_BatchSearch

\* search, the function, is what the steps of search (complete mode) return.
SearchIsItsSteps ==
    (api = "search" /\ pc = "returned") =>
        response = search(request, llm, raw, fanout, llm_answer)

(***************************************************************************)
(* C15: options.timeout_seconds bounds the processing of a request: once   *)
(* it has expired the request ends, a search by returning or raising and a *)
(* search_stream by a last event, even when an LLM call never returns.     *)
(***************************************************************************)
Expired == clock >= request.options.timeout_seconds

Ended ==
    \/ api = "search" /\ pc = "returned"
    \/ api = "search_stream" /\ pc = "closed"

C15_TimeoutBoundsRequest == Expired ~> Ended

(***************************************************************************)
(* C16: the list the fan-out returns holds, for each distinct trimmed      *)
(* lower-cased title among the results of all (adapter, query) tasks, the  *)
(* first item with that title in task order (the selected adapters in      *)
(* registry order, each with the queries in planner order), and nothing    *)
(* else is dropped.                                                        *)
(***************************************************************************)
\* The titles the tasks return, in task order; a task that raises adds none.
RECURSIVE TaskTitles(_, _)
TaskTitles(adapters, queries) ==
    IF adapters = <<>> THEN <<>>
    ELSE IF queries = 0 THEN TaskTitles(Tail(adapters), Len(Planned.search_queries))
    ELSE (IF backend[Head(adapters)].raises THEN <<>> ELSE backend[Head(adapters)].titles)
         \o TaskTitles(adapters, queries - 1)

AllTitles ==
    TaskTitles(SelectSeq(instances, LAMBDA a : a \in Selected), Len(Planned.search_queries))

TitleKey(title) == Lower(Strip(title))

FirstOfTitle ==
    {i \in 1..Len(AllTitles) :
        \A j \in 1..(i - 1) : TitleKey(AllTitles[j]) # TitleKey(AllTitles[i])}

C16_FirstOfEachTitle ==
    pc \notin {"start", "planned"} =>
        /\ Len(items) = Cardinality(FirstOfTitle)
        /\ \A i \in FirstOfTitle :
              items[Cardinality({j \in FirstOfTitle : j <= i})].title = AllTitles[i]

(***************************************************************************)
(* C17: AdapterRegistry.get_adapters(names) returns the initialized        *)
(* adapters whose names are in names, or all of them when names is empty,  *)
(* in insertion order; a search issued while adapters are initialized      *)
(* reaches those adapters, so what they find is in the list of items.      *)
(***************************************************************************)
C17_GetAdapters ==
    pc \notin {"start", "planned"} =>
        LET adapters == get_adapters(instances, request.options.adapters)
        IN  /\ ~adapters.raised
            /\ adapters.value = SelectSeq(instances, LAMBDA a : a \in Selected)
            /\ \A a \in Surviving :
                  \E i \in 1..Len(items) :
                      TitleKey(items[i].title)
                          \in {TitleKey(title) : title \in Range(backend[a].titles)}

(***************************************************************************)
(* C18: for every text that is valid JSON, _repair_json returns the value  *)
(* json.loads returns for it.                                              *)
(***************************************************************************)
C18_RepairKeepsValidJson ==
    (api = "_repair_json" /\ pc = "returned" /\ ~Loads(text).raised) =>
        repaired = Loads(text).value

\* Every text _repair_json is given here is valid JSON.
TextsAreValidJson == api = "_repair_json" => ~Loads(text).raised

(***************************************************************************)
(* C19: with options.decompose false, plan returns the original query as   *)
(* it is: search_queries has exactly one element, the request's query, and *)
(* there is exactly one criterion, of weight 1.0.                          *)
(***************************************************************************)
C19_QueryAsIs ==
    (api = "plan" /\ pc = "returned" /\ ~request.options.decompose) =>
        /\ criteria_result.search_queries = <<request.query>>
        /\ Len(criteria_result.criteria) = 1
        /\ criteria_result.criteria[1].weight = 1000

(***************************************************************************)
(* C20: the heuristic plan for a query q has as search_queries q followed  *)
(* by the first and the second half of its tokens when q has at least 4    *)
(* tokens, by its tokens in reverse order when it has 2 or 3, or by        *)
(* q + " overview" when it has 1; the queries are deduplicated             *)
(* case-insensitively, the list is never empty, and the single criterion   *)
(* is criterion_1, of type topic and weight 1.0.                           *)
(***************************************************************************)
HeuristicPlan ==
    /\ api = "plan"
    /\ pc = "returned"
    /\ ~request.options.decompose \/ llm \in {"none", "raises"}

\* q and its variations, before any deduplication.
Variations(q) ==
    LET tokens == Split(q)
        half == Len(tokens) \div 2
    IN  IF Len(tokens) >= 4
        THEN <<q, Join(SubSeq(tokens, 1, half)), Join(SubSeq(tokens, half + 1, Len(tokens)))>>
        ELSE IF Len(tokens) >= 2 THEN <<q, Join(Reverse(tokens))>>
        ELSE <<q, q \o Overview>>

\* The queries of qs that no earlier query equals up to case, in order.
WithoutCaseDuplicates(qs) ==
    LET first == {i \in 1..Len(qs) : \A j \in 1..(i - 1) : Lower(qs[j]) # Lower(qs[i])}
    IN  [k \in 1..Cardinality(first) |->
            qs[CHOOSE i \in first : Cardinality({j \in first : j <= i}) = k]]

SingleTopicCriterion ==
    /\ Len(criteria_result.criteria) = 1
    /\ criteria_result.criteria[1] = Criterion("criterion_1", "topic", 1000)

FromLlm ==
    /\ api = "plan"
    /\ pc = "returned"
    /\ LlmCalled(request.options.decompose, llm)
    /\ llm = "answers"
    /\ _parse_criteria_response(raw) # Failed

C21_DistinctCriterionIds ==
    (api = "plan" /\ pc = "returned") =>
        /\ \A i, j \in 1..Len(criteria_result.criteria) :
              criteria_result.criteria[i].criterion_id
                  = criteria_result.criteria[j].criterion_id => i = j
        /\ FromLlm =>
              \A i \in 1..Len(raw.criteria) :
                  raw.criteria[i].criterion_id = "" =>
                      criteria_result.criteria[i].criterion_id = CriterionId(i)

\* The second statement of C21 alone.
MissingIdsByPosition ==
    FromLlm =>
        \A i \in 1..Len(raw.criteria) :
            raw.criteria[i].criterion_id = "" =>
                criteria_result.criteria[i].criterion_id = CriterionId(i)

(***************************************************************************)
(* Adapters: the lifecycle of one SearchAdapter object.  adapter.client is  *)
(* the object's _client (_wiki for Wikipedia): "none" or "set".            *)
(* adapter.configured says whether what initialize requires is there: the  *)
(* API key of AtomWalker, the opensearch-py package of OpenSearch, the     *)
(* wikipedia-api package of Wikipedia; Solr and MeiliSearch require        *)
(* nothing.  adapter.serving and adapter.pristine are history: serving is  *)
(* true from an initialize that returned to the next shutdown call,        *)
(* pristine from construction or a shutdown call to the next initialize    *)
(* call.  The backend's reply to a request is an input of each call.       *)
(***************************************************************************)
AdapterKinds == {"atomwalker", "meilisearch", "opensearch", "solr", "wikipedia"}

RequiresConfiguration == {"atomwalker", "opensearch", "wikipedia"}

\* The backend answers a request with 200, with an error status, or not at all.
Replies == {"ok", "status_error", "refused"}

NewAdapter(kind, configured) ==
    [kind |-> kind, configured |-> configured, client |-> "none", serving |-> FALSE, pristine |-> TRUE]

\* initialize of AtomWalkerAdapter: the client is created only with an API key,
\* and no request is sent.
atomwalker_initialize(a) ==
    IF ~a.configured
    THEN [adapter |-> a, result |-> "ConfigurationError"]
    ELSE [adapter |-> [a EXCEPT !.client = "set"], result |-> "returned"]

\* initialize of WikipediaAdapter: the import of wikipediaapi, then _wiki.
wikipedia_initialize(a) ==
    IF ~a.configured
    THEN [adapter |-> a, result |-> "ConfigurationError"]
    ELSE [adapter |-> [a EXCEPT !.client = "set"], result |-> "returned"]

\* initialize of OpenSearchAdapter: the import, then _client is assigned and
\* info() is awaited; an exception of info() leaves _client assigned.
opensearch_initialize(a, reply) ==
    IF ~a.configured
    THEN [adapter |-> a, result |-> "ConfigurationError"]
    ELSE [adapter |-> [a EXCEPT !.client = "set"],
          result |-> IF reply = "ok" THEN "returned" ELSE "ConnectionError"]

\* initialize of SolrAdapter: _client is assigned, then the ping; a ping that
\* fails raises ConnectionError and leaves _client assigned.
solr_initialize(a, reply) ==
    [adapter |-> [a EXCEPT !.client = "set"],
     result |-> IF reply = "ok" THEN "returned" ELSE "ConnectionError"]

\* initialize of MeiliSearchAdapter: _client is assigned, then GET /health.
meilisearch_initialize(a, reply) ==
    [adapter |-> [a EXCEPT !.client = "set"],
     result |-> IF reply = "ok" THEN "returned" ELSE "ConnectionError"]

initialize(a, reply) ==
    CASE a.kind = "atomwalker" -> atomwalker_initialize(a)
      [] a.kind = "wikipedia" -> wikipedia_initialize(a)
      [] a.kind = "opensearch" -> opensearch_initialize(a, reply)
      [] a.kind = "solr" -> solr_initialize(a, reply)
      [] a.kind = "meilisearch" -> meilisearch_initialize(a, reply)

\* shutdown: `if self._client: await self._client.aclose(); self._client = None`.
\* An aclose() that raises leaves _client assigned.  Wikipedia has nothing to
\* close and only assigns None.
shutdown(a, closes) ==
    IF a.client = "none" \/ a.kind = "wikipedia"
    THEN [adapter |-> [a EXCEPT !.client = "none"], result |-> "returned"]
    ELSE IF closes
         THEN [adapter |-> [a EXCEPT !.client = "none"], result |-> "returned"]
         ELSE [adapter |-> a, result |-> "raised"]

\* search of an adapter: without a client the ConnectionError, otherwise the
\* request is sent and its reply decides.
adapter_search(a, reply) ==
    IF a.client = "none" THEN "ConnectionError"
    ELSE CASE reply = "ok" -> "results"
           [] reply = "status_error" -> "QueryError"
           [] reply = "refused" -> "ConnectionError"

\* health_check never raises: every exception becomes status unhealthy.
health_check(a, reply) ==
    IF a.client = "none" THEN "unhealthy"
    ELSE CASE reply = "ok" -> "healthy"
           [] reply = "status_error" -> "degraded"
           [] reply = "refused" -> "unhealthy"

AdapterUnchanged ==
    UNCHANGED <<api, registry, chat, text, repaired, clock, scored_results, raw_responses, batch_response,
                request, llm, raw, instances, backend, fanout, pc, criteria_result, items, task,
                llm_answer, validation, completed, semaphore, index, counts, events, sse, response>>

AdapterInitialize ==
    \E reply \in Replies :
        LET r == initialize(adapter, reply)
        IN /\ adapter' = [r.adapter EXCEPT !.pristine = FALSE,
                                           !.serving = (r.result = "returned") \/ adapter.serving]
           /\ last_call' = [op |-> "initialize", result |-> r.result]
           /\ AdapterUnchanged

AdapterShutdown ==
    \E closes \in BOOLEAN :
        LET r == shutdown(adapter, closes)
        IN /\ adapter' = [r.adapter EXCEPT !.pristine = TRUE, !.serving = FALSE]
           /\ last_call' = [op |-> "shutdown", result |-> r.result]
           /\ AdapterUnchanged

AdapterSearch ==
    \E reply \in Replies :
        /\ last_call' = [op |-> "search", result |-> adapter_search(adapter, reply)]
        /\ UNCHANGED adapter
        /\ AdapterUnchanged

AdapterHealthCheck ==
    \E reply \in Replies :
        /\ last_call' = [op |-> "health_check", result |-> health_check(adapter, reply)]
        /\ UNCHANGED adapter
        /\ AdapterUnchanged

\* The engine's variables in the specifications of the adapters, the registry
\* and the LLM client, none of which runs the engine.
EngineIdle ==
    /\ request = Request(Query0, TRUE, TRUE, TRUE, <<>>)
    /\ llm = "answers"
    /\ raw = Raw0
    /\ instances = <<>>
    /\ backend = NoBackend
    /\ fanout = Returns(<<>>)
    /\ pc = "start"
    /\ criteria_result = NoPlan
    /\ items = <<>>
    /\ task = <<>>
    /\ llm_answer = <<>>
    /\ validation = <<>>
    /\ completed = <<>>
    /\ semaphore = 0
    /\ index = 0
    /\ counts = ZeroCounts
    /\ events = <<>>
    /\ sse = <<>>
    /\ response = NoResponse
    /\ scored_results = Returns(<<>>)
    /\ raw_responses = <<>>
    /\ batch_response = NoBatch
    /\ clock = 0
    /\ text = <<>>
    /\ repaired = <<>>

InitAdapter ==
    /\ api = "adapter"
    /\ EngineIdle
    /\ registry = NoRegistry
    /\ chat = NoChat
    /\ \E kind \in AdapterKinds, configured \in BOOLEAN :
          /\ kind \notin RequiresConfiguration => configured
          /\ adapter = NewAdapter(kind, configured)
    /\ last_call = NoCall

NextAdapter ==
    \/ AdapterInitialize
    \/ AdapterShutdown
    \/ AdapterSearch
    \/ AdapterHealthCheck

SpecAdapter == InitAdapter /\ [][NextAdapter]_vars

\* C22: an adapter serves search only between an initialize that returned and
\* the next shutdown; before initialize and after shutdown search raises the
\* ConnectionError and health_check returns unhealthy; initialize without the
\* required configuration raises the ConfigurationError and leaves the adapter
\* without a client; a shutdown leaves the client none.
C22_AdapterLifecycle ==
    /\ (last_call.op = "search" /\ last_call.result = "results") => adapter.serving
    /\ (last_call.op = "search" /\ adapter.pristine) => last_call.result = "ConnectionError"
    /\ (last_call.op = "health_check" /\ adapter.pristine) => last_call.result = "unhealthy"
    /\ (last_call.op = "initialize" /\ ~adapter.configured) =>
           (last_call.result = "ConfigurationError" /\ adapter.client = "none")
    /\ (last_call.op = "shutdown" /\ last_call.result = "returned") => adapter.client = "none"

\* The same holds of the adapters whose initialize assigns the client last
\* (AtomWalker and Wikipedia) as long as no aclose() has raised and left the
\* client assigned.
AtomWalkerLifecycle ==
    (adapter.kind \in {"atomwalker", "wikipedia"} /\ (adapter.client = "set" => adapter.serving))
        => C22_AdapterLifecycle

(***************************************************************************)
(* LLMClient.chat_json: one call, one step per request it awaits.          *)
(* Temperatures are in tenths.  chat.requests holds the temperature of     *)
(* each request sent, chat.replies what the LLM service gave back to each. *)
(***************************************************************************)
MaxRetries == 2

\* temperature=None of the caller, and Settings.temperature (0.1).
NoneTemperature == -1

SettingsTemperature == 1

Temperatures == {NoneTemperature, 0, 7}

\* The backtick of a markdown fence, written ~ in the texts of the model.
Backtick == "~"

\* str.strip() on both sides.
RECURSIVE LStripOf(_, _)
LStripOf(s, chars) ==
    IF s # <<>> /\ Head(s) \in chars THEN LStripOf(Tail(s), chars) ELSE s

StartsWithFence(s) == Len(s) >= 3 /\ SubSeq(s, 1, 3) = <<Backtick, Backtick, Backtick>>

EndsWithFence(s) == Len(s) >= 3 /\ SubSeq(s, Len(s) - 2, Len(s)) = <<Backtick, Backtick, Backtick>>

_strip_code_fences(s) ==
    LET stripped == RStripOf(LStripOf(s, Whitespace), Whitespace)
        first_newline == Find(stripped, Newline)
        after_line == IF first_newline # 0 THEN SubSeq(stripped, first_newline + 1, Len(stripped)) ELSE stripped
        unfenced == IF EndsWithFence(after_line) THEN SubSeq(after_line, 1, Len(after_line) - 3) ELSE after_line
    IN  IF StartsWithFence(stripped)
        THEN RStripOf(LStripOf(unfenced, Whitespace), Whitespace)
        ELSE stripped

\* What chat.completions.create gives back: a response with content, a
\* response whose content is None, an APIStatusError, or another exception.
ContentReply(content) == [kind |-> "content", content |-> content]

Contents ==
    { <<"{", "}">>,
      <<"[", "]">>,
      <<Backtick, Backtick, Backtick, "j", Newline, "{", "}", Newline, Backtick, Backtick, Backtick>>,
      <<"{">>,
      <<"{", Quote, "a", Quote, ":", Quote, "b", Quote, ",", "}">>,
      <<"x", "{", "}">>,
      <<"x">>,
      <<"{", Quote, "a", Quote>>,
      <<>> }

LlmReplies ==
    {ContentReply(c) : c \in Contents}
        \cup {[kind |-> k, content |-> <<>>] : k \in {"none_content", "api_status_error", "transport_error"}}

NoResult == [status |-> "pending", value |-> <<>>, message |-> ""]

ReturnedJson(value) == [status |-> "returned", value |-> value, message |-> ""]

LLMError(message) == [status |-> "LLMError", value |-> <<>>, message |-> message]

InvalidJson == LLMError("Invalid JSON from LLM after repair attempt")

NewChat(temperature, max_retries) ==
    [temperature |-> IF temperature # NoneTemperature THEN temperature ELSE SettingsTemperature,
     max_retries |-> max_retries, attempt |-> 0,
     requests |-> <<>>, replies |-> <<>>, result |-> NoResult]

cur_tempOfCaller(temperature, attempt) == temperature
cur_temp(temperature, attempt) == IF attempt = 0 THEN temperature ELSE 0

\* The replies on which the attempt raises LLMError out of the loop.
EndsCallOnStatusError(reply) == reply.kind = "api_status_error"
EndsCall(reply) == reply.kind \in {"none_content", "api_status_error", "transport_error"}

ErrorMessage(reply) ==
    CASE reply.kind = "none_content" -> "Model returned empty content"
      [] reply.kind = "api_status_error" -> "LLM API error"
      [] OTHER -> "LLM call failed"

\* One turn of the loop of chat_json: the request, and what its reply leads to.
\* After the last attempt the loop ends and last_error is raised.
chat_json_attempt(c, reply) ==
    LET sent == [c EXCEPT !.requests = Append(@, cur_temp(c.temperature, c.attempt)),
                          !.replies = Append(@, reply),
                          !.attempt = @ + 1]
        content == _strip_code_fences(reply.content)
    IN  IF EndsCall(reply) THEN [sent EXCEPT !.result = LLMError(ErrorMessage(reply))]
        ELSE IF ~Loads(content).raised THEN [sent EXCEPT !.result = ReturnedJson(Loads(content).value)]
        ELSE IF _repair_json(content) # NoneJson
        THEN [sent EXCEPT !.result = ReturnedJson(_repair_json(content))]
        ELSE IF sent.attempt = 1 + c.max_retries THEN [sent EXCEPT !.result = InvalidJson]
        ELSE sent

ChatJsonAttempt ==
    /\ api = "chat_json"
    /\ chat.result = NoResult
    /\ chat.attempt < 1 + chat.max_retries
    /\ \E reply \in LlmReplies : chat' = chat_json_attempt(chat, reply)
    /\ UNCHANGED <<api, adapter, last_call, registry, text, repaired, clock, scored_results, raw_responses,
                   batch_response, request, llm, raw, instances, backend, fanout, pc, criteria_result, items,
                   task, llm_answer, validation, completed, semaphore, index, counts, events, sse, response>>

InitChatJson ==
    /\ api = "chat_json"
    /\ EngineIdle
    /\ adapter = NoAdapter
    /\ last_call = NoCall
    /\ registry = NoRegistry
    /\ \E temperature \in Temperatures, max_retries \in 0..MaxRetries :
          chat = NewChat(temperature, max_retries)

NextChatJson == ChatJsonAttempt

SpecChatJson == InitChatJson /\ [][NextChatJson]_vars

\* A response that neither parses nor is repaired.
Unparseable(reply) ==
    /\ reply.kind = "content"
    /\ Loads(_strip_code_fences(reply.content)).raised
    /\ _repair_json(_strip_code_fences(reply.content)) = NoneJson

\* C23: chat_json sends at most 1 + max_retries requests, the first with the
\* caller's temperature and the later ones with temperature 0; a later request
\* follows only a response that stayed unparseable after repair; the call
\* returns the first response that parses or is repaired, and raises the
\* invalid-JSON LLMError when every attempt ended unparseable.
C23_ChatJsonRetries ==
    api = "chat_json" =>
        /\ Len(chat.requests) <= 1 + chat.max_retries
        /\ \A i \in 1..Len(chat.requests) :
              chat.requests[i] = IF i = 1 THEN chat.temperature ELSE 0
        /\ \A i \in 2..Len(chat.requests) : Unparseable(chat.replies[i - 1])
        /\ chat.result.status = "returned" =>
              LET last == chat.replies[Len(chat.replies)]
                  content == _strip_code_fences(last.content)
              IN  /\ last.kind = "content" /\ ~Unparseable(last)
                  /\ chat.result.value = IF ~Loads(content).raised THEN Loads(content).value
                                         ELSE _repair_json(content)
        /\ (\E i \in 1..Len(chat.replies) : chat.replies[i].kind = "content" /\ ~Unparseable(chat.replies[i]))
              => chat.result.status = "returned"
        /\ (Len(chat.replies) = 1 + chat.max_retries /\ \A i \in 1..Len(chat.replies) : Unparseable(chat.replies[i]))
              <=> chat.result = InvalidJson

C23_Witness ==
    /\ api = "chat_json"
    /\ chat.max_retries = 2 /\ chat.temperature = 7
    /\ chat.requests = <<7, 0, 0>>
    /\ chat.result.status = "returned"
    /\ Loads(chat.replies[3].content).raised

BatchRaws ==
    {RawResponse(<<Query0>>, <<RawCriterion("", "topic", 1000)>>)}
        \cup {RawResponse(<<Query0>>, <<RawCriterion("", t, 300), RawCriterion("", "topic", 700)>>) :
                 t \in {"topic", "time"}}

BatchAssessments == {"support", "somewhat_support", "reject"}

BatchValidationsFor(criteria) ==
    {[i \in 1..Len(criteria) |-> [criterion_id |-> criteria[i].criterion_id, assessment |-> a[i]]] :
        a \in [1..Len(criteria) -> BatchAssessments]}

ClassifierClassifyBatch ==
    /\ api = "classify_batch"
    /\ pc = "start"
    /\ scored_results' = classify_batch(items, validation, criteria_result.criteria)
    /\ pc' = "returned"
    /\ UNCHANGED <<api, adapter, last_call, registry, chat, text, repaired, clock, raw_responses, batch_response,
                   request, llm, raw, instances, backend, fanout, criteria_result, items, task, llm_answer,
                   validation, completed, semaphore, index, counts, events, sse, response>>

InitClassifyBatch ==
    /\ api = "classify_batch"
    /\ request = Request(Query0, TRUE, TRUE, TRUE, <<>>)
    /\ llm = "answers"
    /\ raw \in BatchRaws
    /\ instances = <<>>
    /\ backend = NoBackend
    /\ pc = "start"
    /\ criteria_result = Planned
    /\ \E n \in 0..MaxItems :
          /\ items = ItemList(n)
          /\ fanout = Returns(ItemList(n))
          /\ task = [i \in 1..n |-> "finished"]
          /\ llm_answer = [i \in 1..n |-> Pending]
          /\ validation \in [1..n -> BatchValidationsFor(criteria_result.criteria)]
    /\ completed = <<>>
    /\ semaphore = 0
    /\ index = 0
    /\ counts = ZeroCounts
    /\ events = <<>>
    /\ sse = <<>>
    /\ response = NoResponse
    /\ scored_results = Returns(<<>>)
    /\ raw_responses = <<>>
    /\ batch_response = NoBatch
    /\ clock = 0
    /\ text = <<>>
    /\ repaired = <<>>
    /\ adapter = NoAdapter
    /\ last_call = NoCall
    /\ registry = NoRegistry
    /\ chat = NoChat

NextClassifyBatch == ClassifierClassifyBatch

SpecClassifyBatch == InitClassifyBatch /\ [][NextClassifyBatch]_vars

\* perfect before partial before reject.
Rank(scored) ==
    CASE scored.classification = "perfect" -> 1
      [] scored.classification = "partial" -> 2
      [] scored.classification = "reject" -> 3

\* C24: classify_batch returns one ScoredResult per input item, the perfect
\* ones before the partial ones before the rejected ones, within one
\* classification by descending weighted_score, and results of equal
\* classification and score in the order of the input.
C24_ClassifyBatchOrder ==
    (api = "classify_batch" /\ pc = "returned" /\ ~scored_results.raised) =>
        LET out == scored_results.value
        IN  /\ Len(out) = Len(items)
            /\ \A i \in 1..Len(items) :
                  \E k \in 1..Len(out) :
                      /\ out[k].result = items[i]
                      /\ out[k].validation = validation[i]
                      /\ \A l \in 1..Len(out) : out[l].result = items[i] => l = k
            /\ \A k, l \in 1..Len(out) :
                  k < l =>
                      /\ Rank(out[k]) <= Rank(out[l])
                      /\ Rank(out[k]) = Rank(out[l]) => out[k].weighted_score >= out[l].weighted_score
                      /\ (Rank(out[k]) = Rank(out[l]) /\ out[k].weighted_score = out[l].weighted_score)
                             => out[k].result < out[l].result

\* Three items come back reordered, two of them with the same classification
\* and score.
C24_Witness ==
    /\ api = "classify_batch" /\ pc = "returned" /\ ~scored_results.raised
    /\ Len(items) = 3
    /\ scored_results.value[1].result = 3
    /\ scored_results.value[2].classification = scored_results.value[3].classification
    /\ scored_results.value[2].weighted_score = scored_results.value[3].weighted_score
    /\ scored_results.value[1].classification = scored_results.value[2].classification
    /\ scored_results.value[1].weighted_score > scored_results.value[2].weighted_score

\* C25: while search_stream verifies, the results completed and not yet
\* emitted never outnumber the slots of the semaphore: a verification task
\* does not finish and release its slot ahead of a consumer that has not
\* taken the results before it.
C25_BackPressure ==
    (api = "search_stream" /\ pc = "verifying") =>
        Len(completed) - index <= MaxConcurrent

(***************************************************************************)
(* AdapterRegistry.  registry.classes is _classes (the class registered    *)
(* under a name, "none" when there is none), registry.instances is         *)
(* _instances, a dict in insertion order, as a sequence of [name, object]; *)
(* registry.objects are the adapter objects whose initialize returned,     *)
(* each with the number of shutdown calls it has received and whether one  *)
(* of them returned.                                                       *)
(***************************************************************************)
MaxObjects == 3

MaxShutdowns == 2

RegistryNames == {"atomwalker", "solr"}

NewRegistry ==
    [classes |-> [n \in RegistryNames |-> "none"], instances |-> <<>>, objects |-> <<>>]

\* self._instances[name] = adapter: a new key goes last, a key already there
\* keeps its place and takes the new value.
SetInstance(entries, name, object) ==
    IF \E i \in 1..Len(entries) : entries[i].name = name
    THEN [i \in 1..Len(entries) |->
             IF entries[i].name = name THEN [name |-> name, object |-> object] ELSE entries[i]]
    ELSE Append(entries, [name |-> name, object |-> object])

register(reg, name, adapter_class) ==
    [reg EXCEPT !.classes[name] = adapter_class]

\* initialize_adapter: AdapterNotFoundError for a name without class; else
\* the object is constructed and initialized, and stored only when
\* initialize returned.
initialize_adapter(reg, name, configured, reply) ==
    IF reg.classes[name] = "none"
    THEN [registry |-> reg, result |-> "AdapterNotFoundError"]
    ELSE LET r == initialize(NewAdapter(reg.classes[name], configured), reply)
             object == [adapter |-> r.adapter, shutdown_calls |-> 0, closed |-> FALSE]
         IN  IF r.result # "returned" THEN [registry |-> reg, result |-> r.result]
             ELSE [registry |-> [reg EXCEPT !.objects = Append(@, object),
                                            !.instances = SetInstance(@, name, Len(reg.objects) + 1)],
                   result |-> "returned"]

\* adapter.shutdown() on an object, counted.
ShutdownObject(object, closes) ==
    LET r == shutdown(object.adapter, closes)
    IN  [object |-> [adapter |-> r.adapter,
                     shutdown_calls |-> object.shutdown_calls + 1,
                     closed |-> object.closed \/ r.result = "returned"],
         result |-> r.result]

\* The loop of shutdown_all over _instances.items(); caught says whether the
\* exception of a shutdown is caught inside the loop.
RECURSIVE ShutdownLoop(_, _, _, _)
ShutdownLoop(entries, objects, closes, caught) ==
    IF entries = <<>> THEN [objects |-> objects, raised |-> FALSE]
    ELSE LET k == Head(entries).object
             r == ShutdownObject(objects[k], closes[k])
             shut == [objects EXCEPT ![k] = r.object]
         IN  IF r.result = "raised" /\ ~caught THEN [objects |-> shut, raised |-> TRUE]
             ELSE ShutdownLoop(Tail(entries), shut, closes, caught)

\* Mutation of shutdown_all: no try/except around adapter.shutdown().
shutdown_allUncaught(reg, closes) ==
    LET loop == ShutdownLoop(reg.instances, reg.objects, closes, FALSE)
    IN  IF loop.raised
        THEN [registry |-> [reg EXCEPT !.objects = loop.objects], result |-> "raised"]
        ELSE [registry |-> [reg EXCEPT !.objects = loop.objects, !.instances = <<>>], result |-> "returned"]
shutdown_all(reg, closes) ==
    LET loop == ShutdownLoop(reg.instances, reg.objects, closes, TRUE)
    IN  [registry |-> [reg EXCEPT !.objects = loop.objects, !.instances = <<>>], result |-> "returned"]

Active(reg) == {reg.instances[i].object : i \in 1..Len(reg.instances)}

RegistryUnchanged ==
    UNCHANGED <<api, adapter, chat, text, repaired, clock, scored_results, raw_responses, batch_response,
                request, llm, raw, instances, backend, fanout, pc, criteria_result, items, task,
                llm_answer, validation, completed, semaphore, index, counts, events, sse, response>>

RegistryCall(op, result, object) ==
    [op |-> op, result |-> result, object |-> object, before |-> registry]

RegistryRegister ==
    \E name \in RegistryNames :
        /\ registry' = register(registry, name, name)
        /\ last_call' = RegistryCall("register", "returned", 0)
        /\ RegistryUnchanged

RegistryInitializeAdapter ==
    \E name \in RegistryNames, configured \in BOOLEAN, reply \in {"ok", "refused"} :
        /\ name \notin RequiresConfiguration => configured
        /\ Len(registry.objects) < MaxObjects
        /\ LET r == initialize_adapter(registry, name, configured, reply)
           IN  /\ registry' = r.registry
               /\ last_call' = RegistryCall("initialize_adapter", r.result, 0)
        /\ RegistryUnchanged

RegistryShutdownAll ==
    \E closes \in [1..Len(registry.objects) -> BOOLEAN] :
        /\ \A k \in 1..Len(registry.objects) :
              (k \notin Active(registry) \/ registry.objects[k].adapter.client = "none") => closes[k]
        /\ \A k \in Active(registry) : registry.objects[k].shutdown_calls < MaxShutdowns
        /\ LET r == shutdown_all(registry, closes)
           IN  /\ registry' = r.registry
               /\ last_call' = RegistryCall("shutdown_all", r.result, 0)
        /\ RegistryUnchanged

\* The holder of an adapter that has left the registry calls its shutdown.
RegistryAdapterShutdown ==
    \E k \in 1..Len(registry.objects), closes \in BOOLEAN :
        /\ k \notin Active(registry)
        /\ registry.objects[k].shutdown_calls < MaxShutdowns
        /\ registry.objects[k].adapter.client = "none" => closes
        /\ LET r == ShutdownObject(registry.objects[k], closes)
           IN  /\ registry' = [registry EXCEPT !.objects[k] = r.object]
               /\ last_call' = RegistryCall("shutdown", r.result, k)
        /\ RegistryUnchanged

InitRegistry ==
    /\ api = "registry"
    /\ EngineIdle
    /\ adapter = NoAdapter
    /\ chat = NoChat
    /\ registry = NewRegistry
    /\ last_call = [op |-> "none", result |-> "returned", object |-> 0, before |-> NewRegistry]

NextRegistry ==
    \/ RegistryRegister
    \/ RegistryInitializeAdapter
    \/ RegistryShutdownAll
    \/ RegistryAdapterShutdown

SpecRegistry == InitRegistry /\ [][NextRegistry]_vars

SecondShutdown ==
    /\ api = "registry"
    /\ last_call.op = "shutdown"
    /\ last_call.before.objects[last_call.object].closed

\* C30: the active instances are exactly the adapters whose initialize
\* returned and whose shutdown has not been called; a failed
\* initialize_adapter leaves them unchanged.
C30_ActiveInstances ==
    api = "registry" =>
        /\ Active(registry) = {k \in 1..Len(registry.objects) : registry.objects[k].shutdown_calls = 0}
        /\ (last_call.op = "initialize_adapter" /\ last_call.result # "returned") =>
               registry = last_call.before

\* The part of C30 that holds: a failed initialize_adapter changes nothing, and
\* every active instance is an object never shut down.
FailedInitializeChangesNothing ==
    api = "registry" =>
        /\ Active(registry) \subseteq {k \in 1..Len(registry.objects) : registry.objects[k].shutdown_calls = 0}
        /\ (last_call.op = "initialize_adapter" /\ last_call.result # "returned") =>
               registry = last_call.before

\* C27: with options.verify false and options.classify true every item is
\* classified reject with weighted_score 0: search() returns no perfect and
\* no partial result and rejected_count = total_scanned, and search_stream
\* reports perfect_count 0, partial_count 0 and rejected_count =
\* total_scanned after result events that all carry reject and score 0.
C27_UnverifiedIsRejected ==
    (~request.options.verify /\ request.options.classify) =>
        /\ (api = "search" /\ pc = "returned" /\ response.status # "raised") =>
              /\ response.perfect_results = <<>>
              /\ response.partial_results = <<>>
              /\ response.rejected_count = response.total_scanned
              /\ response.total_scanned = Len(items)
              /\ \A i \in 1..Len(response.rejected_results) :
                    /\ response.rejected_results[i].classification = "reject"
                    /\ response.rejected_results[i].weighted_score = 0
        /\ api = "search_stream" =>
              /\ \A i \in Positions("result") :
                    /\ events[i].data.classification = "reject"
                    /\ events[i].data.weighted_score = 0
              /\ EndsWithDone =>
                    LET done == events[Len(events)].data
                    IN  /\ done.perfect_count = 0
                        /\ done.partial_count = 0
                        /\ done.rejected_count = done.total_scanned
                        /\ done.total_scanned = Len(items)

\* A stream without verification over two or more items and two or more
\* criteria that has ended with done.
C27_Witness ==
    /\ api = "search_stream"
    /\ ~request.options.verify /\ request.options.classify
    /\ EndsWithDone
    /\ events[Len(events)].data.rejected_count >= 2
    /\ Len(criteria_result.criteria) >= 2

\* The same in complete mode.
UnverifiedSearchReturned ==
    /\ api = "search" /\ pc = "returned"
    /\ ~request.options.verify /\ request.options.classify
    /\ response.rejected_count >= 2
    /\ Len(criteria_result.criteria) >= 2
    /\ \E i \in 1..Len(criteria_result.criteria) : criteria_result.criteria[i].type = "time"

\* C28: a stream that ends with done reports the counts of the complete-mode
\* response for the same items, criteria and validations: with classify the
\* numbers of perfect, partial and rejected results, which add up to
\* total_scanned, in whatever order the verifications completed; without
\* classify three zeros and total_scanned the number of items.
C28_StreamAgreesWithComplete ==
    (api = "search_stream" /\ EndsWithDone /\ items # <<>>) =>
        LET done == events[Len(events)].data
            complete == Assembled(items, validation, criteria_result.criteria, request.options.classify)
        IN  /\ complete.status = "completed"
            /\ done.total_scanned = complete.total_scanned
            /\ done.total_scanned = Len(items)
            /\ request.options.classify =>
                  /\ done.perfect_count = Len(complete.perfect_results)
                  /\ done.partial_count = Len(complete.partial_results)
                  /\ done.rejected_count = complete.rejected_count
                  /\ done.perfect_count + done.partial_count + done.rejected_count = done.total_scanned
            /\ ~request.options.classify =>
                  /\ done.perfect_count = 0
                  /\ done.partial_count = 0
                  /\ done.rejected_count = 0

\* A classified stream with a perfect, a partial and a rejected result whose
\* verifications completed out of item order.
C28_Witness ==
    /\ api = "search_stream" /\ EndsWithDone
    /\ request.options.classify
    /\ events[Len(events)].data.perfect_count = 1
    /\ events[Len(events)].data.partial_count = 1
    /\ events[Len(events)].data.rejected_count = 1
    /\ completed[1] # 1

\* An unclassified stream over two or more items that has ended with done.
UnclassifiedStreamDone ==
    /\ api = "search_stream" /\ EndsWithDone
    /\ ~request.options.classify
    /\ Len(items) >= 2

=============================================================================
